---- MODULE Spec2Model ----
(***************************************************************************)
(* Model of pyromb's Catchment (src/src/pyromb/core/catchment.py): the     *)
(* vertex and edge lists, the nearest-vertex match, the outlet scan and    *)
(* connect(), which fills the downstream and upstream incidence matrices.  *)
(*                                                                         *)
(* Coordinates are integers on a grid whose unit is the default tolerance  *)
(* of _find_closest_vertex (1e-6), so a distance of one unit is exactly    *)
(* the tolerance.  math.hypot is modelled by the squared distance; the     *)
(* code's comparisons of distances are comparisons of squares, which is    *)
(* the same order on non-negative numbers.                                 *)
(*                                                                         *)
(* Indices are 0-based as in the source: vertex index i is vertices[i+1].  *)
(***************************************************************************)
EXTENDS Integers, Sequences, FiniteSets, TLC

VARIABLES vertices, edges, incidenceMatrixDS, incidenceMatrixUS,
          out_node_index, ret, logged, bfs, traveller, wbnm, app, builder

vars == <<vertices, edges, incidenceMatrixDS, incidenceMatrixUS,
          out_node_index, ret, logged, bfs, traveller, wbnm, app, builder>>

catchment_vars == <<vertices, edges, incidenceMatrixDS, incidenceMatrixUS,
                    out_node_index>>

\* the locals of a running _build_incidence_matrices, the Traveller, the
\* WBNM model, the position of main() and the layer a Builder is validating:
\* none of them exists while only the Catchment is used
other_vars == <<bfs, traveller, wbnm, app, builder>>

NoBfs == [pc |-> "idle"]

NoTraveller == [pc |-> "none"]

NoWBNM == [pc |-> "none"]

NoMain == [pc |-> "none"]

NoBuilder == [pc |-> "none"]

(***************************************************************************)
(* Bounds of the model.                                                    *)
(***************************************************************************)
MaxVertices == 2

MaxEdges == 2

MaxTreeVertices == 3

MaxMatchVertices == 3

GridMax == 1

MaxTol == 1
\* vertices and edges of the catchments the breadth-first builder runs on
MaxBfsVertices == 3

MaxBfsEdges == 2
\* vertices of the catchments a Traveller walks
MaxWalkVertices == 4
\* vertices of the catchments the downstream resolution runs on
MaxChainVertices == 5
\* next() calls made after the end of the walk
MaxExtraCalls == 2
\* confluence and basin records, and reaches, in the layers main() loads
MaxMainVertices == 2

MaxMainEdges == 1

\* records of a confluence layer handed to the 'out' field validation
MaxOutRecords == 3

\* fields of a layer, fields expected of it and its records, for the field
\* validation
MaxFields == 2

MaxExpected == 1

MaxFieldRecords == 1

\* features of a layer handed to a Builder method
MaxBuilderRecords == 1

\* vertices of the catchment and getVector calls on one WBNM instance
MaxRepeatVertices == 3

MaxCalls == 2

(***************************************************************************)
(* Program constants.                                                      *)
(***************************************************************************)
endSentinel == -1

NotFound == -1

Inf == -1

DefaultTol == 1

(***************************************************************************)
(* Data: points, nodes, reaches, matrices.                                 *)
(***************************************************************************)
Point(x, y) == <<x, y>>

coordinates(node) == node.xy

Confluence(x, y, out) == [kind |-> "Confluence", isOut |-> out, xy |-> Point(x, y)]

Basin(x, y) == [kind |-> "Basin", xy |-> Point(x, y)]

Reach(startXY, endXY) == [vector |-> <<[xy |-> startXY], [xy |-> endXY]>>]

getStart(edge) == edge.vector[1]

getEnd(edge) == edge.vector[Len(edge.vector)]

EmptyArray == [shape |-> <<0>>, at |-> <<>>]

np_full(n, m, value) ==
    [shape |-> <<n, m>>,
     at |-> [v \in 0..(n - 1) |-> [e \in 0..(m - 1) |-> value]]]

(***************************************************************************)
(* math.hypot, squared.                                                    *)
(***************************************************************************)
hypotSq(dx, dy) == dx * dx + dy * dy

(***************************************************************************)
(* Catchment._find_closest_vertex: the scan keeps the first vertex whose   *)
(* distance is strictly smaller than the minimum so far (Inf before the    *)
(* first vertex); the minimum is then compared with the tolerance.         *)
(***************************************************************************)
\* the scan with "<=" for "<": the last of several nearest vertices wins
RECURSIVE closest_scan_last_tie(_, _, _, _, _)
closest_scan_last_tie(vs, node_coords, vertex_idx, min_distance, closest_vertex_idx) ==
    IF vertex_idx >= Len(vs)
    THEN <<min_distance, closest_vertex_idx>>
    ELSE LET vertex_coords == coordinates(vs[vertex_idx + 1])
             distance == hypotSq(vertex_coords[1] - node_coords[1],
                                 vertex_coords[2] - node_coords[2])
         IN  IF min_distance = Inf \/ distance <= min_distance
             THEN closest_scan_last_tie(vs, node_coords, vertex_idx + 1, distance,
                                        vertex_idx)
             ELSE closest_scan_last_tie(vs, node_coords, vertex_idx + 1, min_distance,
                                        closest_vertex_idx)

RECURSIVE closest_scan(_, _, _, _, _)
closest_scan(vs, node_coords, vertex_idx, min_distance, closest_vertex_idx) ==
    IF vertex_idx >= Len(vs)
    THEN <<min_distance, closest_vertex_idx>>
    ELSE LET vertex_coords == coordinates(vs[vertex_idx + 1])
             distance == hypotSq(vertex_coords[1] - node_coords[1],
                                 vertex_coords[2] - node_coords[2])
         IN  IF min_distance = Inf \/ distance < min_distance
             THEN closest_scan(vs, node_coords, vertex_idx + 1, distance, vertex_idx)
             ELSE closest_scan(vs, node_coords, vertex_idx + 1, min_distance,
                               closest_vertex_idx)

find_closest_vertex(vs, node, tol) ==
    LET scan == closest_scan(vs, coordinates(node), 0, Inf, NotFound)
        min_distance == scan[1]
        closest_vertex_idx == scan[2]
    IN  IF min_distance = Inf \/ min_distance > tol * tol
        THEN NotFound
        ELSE closest_vertex_idx

(***************************************************************************)
(* Catchment._find_vertex_by_coordinates: the index of the first vertex of *)
(* the list within tol of the coordinates, -1 when there is none.  The     *)
(* default tolerance is 1e-1, CoordTol grid units.                         *)
(***************************************************************************)
CoordTol == 100000

abs(x) == IF x < 0 THEN -x ELSE x

\* math.hypot(dx, dy) <= tol; a leg longer than tol, or legs summing to at
\* most tol, decide it without squaring
hypotLe(dx, dy, tol) ==
    IF abs(dx) > tol \/ abs(dy) > tol THEN FALSE
    ELSE IF abs(dx) + abs(dy) <= tol THEN TRUE
    ELSE hypotSq(dx, dy) <= tol * tol

find_vertex_by_coordinates(vs, coords, tol) ==
    LET matching == {idx \in 0..(Len(vs) - 1) :
                        LET vertex_coords == coordinates(vs[idx + 1])
                        IN  hypotLe(vertex_coords[1] - coords[1],
                                    vertex_coords[2] - coords[2], tol)}
    IN  IF matching = {}
        THEN -1
        ELSE CHOOSE idx \in matching : \A other \in matching : idx <= other

(***************************************************************************)
(* Catchment._find_out_node: index of the first Confluence flagged as      *)
(* outlet; raises ValueError when there is none.                           *)
(***************************************************************************)
isinstance(vertex, class) == vertex.kind = class

IsOutConfluence(vertex) == isinstance(vertex, "Confluence") /\ vertex.isOut

\* the scan keeping the last flagged Confluence instead of returning at the
\* first
find_out_node_last(vs) ==
    LET found == {idx \in 0..(Len(vs) - 1) : IsOutConfluence(vs[idx + 1])}
    IN  IF found = {}
        THEN [raised |-> TRUE, idx |-> NotFound]
        ELSE [raised |-> FALSE,
              idx |-> CHOOSE idx \in found : \A other \in found : idx >= other]

find_out_node(vs) ==
    LET found == {idx \in 0..(Len(vs) - 1) : IsOutConfluence(vs[idx + 1])}
    IN  IF found = {}
        THEN [raised |-> TRUE, idx |-> NotFound]
        ELSE [raised |-> FALSE,
              idx |-> CHOOSE idx \in found : \A other \in found : idx <= other]

(***************************************************************************)
(* Catchment.__init__: confluences first, then basins; empty tables.       *)
(***************************************************************************)
\* the vertex list with the basins ahead of the confluences
Catchment_basins_first(confluences, basins, reaches) ==
    [vertices |-> basins \o confluences,
     edges |-> reaches,
     incidenceMatrixDS |-> EmptyArray,
     incidenceMatrixUS |-> EmptyArray,
     out_node_index |-> -1]

Catchment(confluences, basins, reaches) ==
    [vertices |-> confluences \o basins,
     edges |-> reaches,
     incidenceMatrixDS |-> EmptyArray,
     incidenceMatrixUS |-> EmptyArray,
     out_node_index |-> -1]

(***************************************************************************)
(* Catchment.connect, loop by loop.                                        *)
(***************************************************************************)
SetEntry(matrix, v, e, value) == [matrix EXCEPT !.at[v][e] = value]

\* first loop of connect (lines 233-247): 1 marks the upstream end of the
\* edge, 2 its downstream end, the second assignment overwriting the first
\* when both ends are the same vertex; a skipped edge is logged
RECURSIVE connection_loop(_, _, _, _, _)
connection_loop(vs, es, edge_idx, connection_matrix, warnings) ==
    IF edge_idx >= Len(es)
    THEN [connection_matrix |-> connection_matrix, warnings |-> warnings]
    ELSE LET edge == es[edge_idx + 1]
             closest_start_idx == find_closest_vertex(vs, getStart(edge), DefaultTol)
             closest_end_idx == find_closest_vertex(vs, getEnd(edge), DefaultTol)
         IN  IF closest_start_idx = -1 \/ closest_end_idx = -1
             THEN connection_loop(vs, es, edge_idx + 1, connection_matrix,
                                  warnings + 1)
             ELSE connection_loop(vs, es, edge_idx + 1,
                      SetEntry(SetEntry(connection_matrix,
                                        closest_start_idx, edge_idx, 1),
                               closest_end_idx, edge_idx, 2),
                      warnings)

\* the second loop with the two tables exchanged: the downstream table is
\* written at the end vertex, the upstream table at the start vertex
RECURSIVE incidence_loop_swapped(_, _, _, _, _)
incidence_loop_swapped(vs, es, edge_idx, incidence_matrix_ds, incidence_matrix_us) ==
    IF edge_idx >= Len(es)
    THEN [ds |-> incidence_matrix_ds, us |-> incidence_matrix_us]
    ELSE LET edge == es[edge_idx + 1]
             start_idx == find_closest_vertex(vs, getStart(edge), DefaultTol)
             end_idx == find_closest_vertex(vs, getEnd(edge), DefaultTol)
         IN  IF start_idx # -1 /\ end_idx # -1
             THEN incidence_loop_swapped(vs, es, edge_idx + 1,
                      SetEntry(incidence_matrix_ds, end_idx, edge_idx, start_idx),
                      SetEntry(incidence_matrix_us, start_idx, edge_idx, end_idx))
             ELSE incidence_loop_swapped(vs, es, edge_idx + 1,
                                         incidence_matrix_ds, incidence_matrix_us)

\* the second loop stopping one edge early
RECURSIVE incidence_loop_short(_, _, _, _, _)
incidence_loop_short(vs, es, edge_idx, incidence_matrix_ds, incidence_matrix_us) ==
    IF edge_idx >= Len(es) - 1
    THEN [ds |-> incidence_matrix_ds, us |-> incidence_matrix_us]
    ELSE LET edge == es[edge_idx + 1]
             start_idx == find_closest_vertex(vs, getStart(edge), DefaultTol)
             end_idx == find_closest_vertex(vs, getEnd(edge), DefaultTol)
         IN  IF start_idx # -1 /\ end_idx # -1
             THEN incidence_loop_short(vs, es, edge_idx + 1,
                      SetEntry(incidence_matrix_ds, start_idx, edge_idx, end_idx),
                      SetEntry(incidence_matrix_us, end_idx, edge_idx, start_idx))
             ELSE incidence_loop_short(vs, es, edge_idx + 1,
                                       incidence_matrix_ds, incidence_matrix_us)

\* the second loop recording an edge as soon as one of its ends is resolved;
\* the index -1 of the unresolved end addresses the last row, as in Python
RECURSIVE incidence_loop_either(_, _, _, _, _)
incidence_loop_either(vs, es, edge_idx, incidence_matrix_ds, incidence_matrix_us) ==
    IF edge_idx >= Len(es)
    THEN [ds |-> incidence_matrix_ds, us |-> incidence_matrix_us]
    ELSE LET edge == es[edge_idx + 1]
             start_idx == find_closest_vertex(vs, getStart(edge), DefaultTol)
             end_idx == find_closest_vertex(vs, getEnd(edge), DefaultTol)
             row(idx) == IF idx = -1 THEN Len(vs) - 1 ELSE idx
         IN  IF start_idx # -1 \/ end_idx # -1
             THEN incidence_loop_either(vs, es, edge_idx + 1,
                      SetEntry(incidence_matrix_ds, row(start_idx), edge_idx, end_idx),
                      SetEntry(incidence_matrix_us, row(end_idx), edge_idx, start_idx))
             ELSE incidence_loop_either(vs, es, edge_idx + 1,
                                        incidence_matrix_ds, incidence_matrix_us)

\* the loop writing the upstream entry in the row of the start vertex
RECURSIVE incidence_loop_us_at_start(_, _, _, _, _)
incidence_loop_us_at_start(vs, es, edge_idx, incidence_matrix_ds, incidence_matrix_us) ==
    IF edge_idx >= Len(es)
    THEN [ds |-> incidence_matrix_ds, us |-> incidence_matrix_us]
    ELSE LET edge == es[edge_idx + 1]
             start_idx == find_closest_vertex(vs, getStart(edge), DefaultTol)
             end_idx == find_closest_vertex(vs, getEnd(edge), DefaultTol)
         IN  IF start_idx # -1 /\ end_idx # -1
             THEN incidence_loop_us_at_start(vs, es, edge_idx + 1,
                      SetEntry(incidence_matrix_ds, start_idx, edge_idx, end_idx),
                      SetEntry(incidence_matrix_us, start_idx, edge_idx, start_idx))
             ELSE incidence_loop_us_at_start(vs, es, edge_idx + 1,
                                             incidence_matrix_ds, incidence_matrix_us)

\* second loop of connect (lines 256-266):
\* downstream matrix [start_vertex][edge] = end_vertex,
\* upstream matrix [end_vertex][edge] = start_vertex
RECURSIVE incidence_loop(_, _, _, _, _)
incidence_loop(vs, es, edge_idx, incidence_matrix_ds, incidence_matrix_us) ==
    IF edge_idx >= Len(es)
    THEN [ds |-> incidence_matrix_ds, us |-> incidence_matrix_us]
    ELSE LET edge == es[edge_idx + 1]
             start_idx == find_closest_vertex(vs, getStart(edge), DefaultTol)
             end_idx == find_closest_vertex(vs, getEnd(edge), DefaultTol)
         IN  IF start_idx # -1 /\ end_idx # -1
             THEN incidence_loop(vs, es, edge_idx + 1,
                      SetEntry(incidence_matrix_ds, start_idx, edge_idx, end_idx),
                      SetEntry(incidence_matrix_us, end_idx, edge_idx, start_idx))
             ELSE incidence_loop(vs, es, edge_idx + 1,
                                 incidence_matrix_ds, incidence_matrix_us)

\* the outcome of the most recent call: which method, with which arguments,
\* and the tuple it returned or the exception it raised
NoCall == [op |-> "", args |-> <<>>, kind |-> "none", value |-> <<>>, exc |-> ""]

Raised(op, args, exc) ==
    [op |-> op, args |-> args, kind |-> "raise", value |-> <<>>, exc |-> exc]

Returned(op, args, value) ==
    [op |-> op, args |-> args, kind |-> "return", value |-> value, exc |-> ""]

NoOutNode == "ValueError: No 'out' node found in confluences."

\* connect() storing its tables before it looks for the outlet
connect_stores_first(self) ==
    LET num_vertices == Len(self.vertices)
        num_edges == Len(self.edges)
        first == connection_loop(self.vertices, self.edges, 0,
                                 np_full(num_vertices, num_edges, 0), 0)
        out == find_out_node(self.vertices)
        second == incidence_loop(self.vertices, self.edges, 0,
                      np_full(num_vertices, num_edges, endSentinel),
                      np_full(num_vertices, num_edges, endSentinel))
        stored == [self EXCEPT !.incidenceMatrixDS = second.ds,
                               !.incidenceMatrixUS = second.us]
    IN  IF out.raised
        THEN [self |-> stored,
              ret |-> Raised("connect", <<>>, NoOutNode),
              logged |-> first.warnings]
        ELSE [self |-> [stored EXCEPT !.out_node_index = out.idx],
              ret |-> Returned("connect", <<>>, <<second.ds, second.us>>),
              logged |-> first.warnings]

\* connect() filling the tables it stored last time instead of fresh ones,
\* each write adding to the entry that is already there
RECURSIVE incidence_loop_adding(_, _, _, _, _)
incidence_loop_adding(vs, es, edge_idx, incidence_matrix_ds, incidence_matrix_us) ==
    IF edge_idx >= Len(es)
    THEN [ds |-> incidence_matrix_ds, us |-> incidence_matrix_us]
    ELSE LET edge == es[edge_idx + 1]
             start_idx == find_closest_vertex(vs, getStart(edge), DefaultTol)
             end_idx == find_closest_vertex(vs, getEnd(edge), DefaultTol)
         IN  IF start_idx # -1 /\ end_idx # -1
             THEN incidence_loop_adding(vs, es, edge_idx + 1,
                      SetEntry(incidence_matrix_ds, start_idx, edge_idx,
                          incidence_matrix_ds.at[start_idx][edge_idx] + end_idx + 1),
                      SetEntry(incidence_matrix_us, end_idx, edge_idx,
                          incidence_matrix_us.at[end_idx][edge_idx] + start_idx + 1))
             ELSE incidence_loop_adding(vs, es, edge_idx + 1,
                                        incidence_matrix_ds, incidence_matrix_us)

connect_accumulating(self) ==
    LET num_vertices == Len(self.vertices)
        num_edges == Len(self.edges)
        first == connection_loop(self.vertices, self.edges, 0,
                                 np_full(num_vertices, num_edges, 0), 0)
        out == find_out_node(self.vertices)
        fresh == self.incidenceMatrixDS.shape # <<num_vertices, num_edges>>
        second == incidence_loop_adding(self.vertices, self.edges, 0,
                      IF fresh THEN np_full(num_vertices, num_edges, endSentinel)
                               ELSE self.incidenceMatrixDS,
                      IF fresh THEN np_full(num_vertices, num_edges, endSentinel)
                               ELSE self.incidenceMatrixUS)
    IN  IF out.raised
        THEN [self |-> self,
              ret |-> Raised("connect", <<>>, NoOutNode),
              logged |-> first.warnings]
        ELSE [self |-> [self EXCEPT !.out_node_index = out.idx,
                                    !.incidenceMatrixDS = second.ds,
                                    !.incidenceMatrixUS = second.us],
              ret |-> Returned("connect", <<>>, <<second.ds, second.us>>),
              logged |-> first.warnings]

\* connect() dropping from the edge list the reaches it could not bind
connect_pruning(self) ==
    LET num_vertices == Len(self.vertices)
        num_edges == Len(self.edges)
        first == connection_loop(self.vertices, self.edges, 0,
                                 np_full(num_vertices, num_edges, 0), 0)
        out == find_out_node(self.vertices)
        second == incidence_loop(self.vertices, self.edges, 0,
                      np_full(num_vertices, num_edges, endSentinel),
                      np_full(num_vertices, num_edges, endSentinel))
        bound(edge) ==
            /\ find_closest_vertex(self.vertices, getStart(edge), DefaultTol) # -1
            /\ find_closest_vertex(self.vertices, getEnd(edge), DefaultTol) # -1
    IN  IF out.raised
        THEN [self |-> self,
              ret |-> Raised("connect", <<>>, NoOutNode),
              logged |-> first.warnings]
        ELSE [self |-> [self EXCEPT !.out_node_index = out.idx,
                                    !.edges = SelectSeq(@, bound),
                                    !.incidenceMatrixDS = second.ds,
                                    !.incidenceMatrixUS = second.us],
              ret |-> Returned("connect", <<>>, <<second.ds, second.us>>),
              logged |-> first.warnings]

\* connect(self): the new object state, what the caller gets, and the number
\* of "Edge i has no valid start or end vertex." warnings it logged
connect(self) ==
    LET num_vertices == Len(self.vertices)
        num_edges == Len(self.edges)
        first == connection_loop(self.vertices, self.edges, 0,
                                 np_full(num_vertices, num_edges, 0), 0)
        out == find_out_node(self.vertices)
        second == incidence_loop(self.vertices, self.edges, 0,
                      np_full(num_vertices, num_edges, endSentinel),
                      np_full(num_vertices, num_edges, endSentinel))
    IN  IF out.raised
        THEN [self |-> self,
              ret |-> Raised("connect", <<>>, NoOutNode),
              logged |-> first.warnings]
        ELSE [self |-> [self EXCEPT !.out_node_index = out.idx,
                                    !.incidenceMatrixDS = second.ds,
                                    !.incidenceMatrixUS = second.us],
              ret |-> Returned("connect", <<>>, <<second.ds, second.us>>),
              logged |-> first.warnings]

(***************************************************************************)
(* Catchment._build_incidence_matrices: two breadth-first propagations     *)
(* seeded at (self._out_node_index, -1).  The upstream one (lines 112-150) *)
(* handles the entries 1 of the connection matrix at the current vertex    *)
(* and looks the edge's end point up by coordinates; the downstream one    *)
(* (lines 152-193) handles the entries 2 and looks the start point up.     *)
(* A propagation is the record of its locals: queue, colour and the        *)
(* incidence matrix it fills, with the history of what it handled:         *)
(* processed lists the (vertex, edge) pairs it marked, enqueued counts its *)
(* queue.append calls after the seed, warnings its logged failed lookups.  *)
(***************************************************************************)
bfs_seed(self, num_vertices, num_edges, incidence_matrix) ==
    [queue |-> << <<self.out_node_index, -1>> >>,
     colour |-> np_full(num_vertices, num_edges, 0),
     incidence_matrix |-> incidence_matrix,
     processed |-> <<>>,
     enqueued |-> 0,
     warnings |-> 0]

\* the for loop without the colour test: a pair is handled at every visit
RECURSIVE bfs_edges_uncoloured(_, _, _, _, _, _)
bfs_edges_uncoloured(self, connection_matrix, connection_type, current_vertex, edge_idx, p) ==
    IF edge_idx >= Len(self.edges)
    THEN p
    ELSE IF connection_matrix.at[current_vertex][edge_idx] # connection_type
    THEN bfs_edges_uncoloured(self, connection_matrix, connection_type,
                              current_vertex, edge_idx + 1, p)
    ELSE LET edge == self.edges[edge_idx + 1]
             node == IF connection_type = 1 THEN getEnd(edge) ELSE getStart(edge)
             vertex_idx == find_vertex_by_coordinates(self.vertices,
                                                      coordinates(node), CoordTol)
             marked == [p EXCEPT
                          !.colour = SetEntry(@, current_vertex, edge_idx, 1),
                          !.processed = Append(@, <<current_vertex, edge_idx>>)]
         IN  IF vertex_idx = -1
             THEN bfs_edges_uncoloured(self, connection_matrix, connection_type,
                      current_vertex, edge_idx + 1,
                      [marked EXCEPT !.warnings = @ + 1])
             ELSE bfs_edges_uncoloured(self, connection_matrix, connection_type,
                      current_vertex, edge_idx + 1,
                      [marked EXCEPT
                         !.incidence_matrix =
                             SetEntry(@, current_vertex, edge_idx, vertex_idx),
                         !.queue = Append(@, <<vertex_idx, edge_idx>>),
                         !.enqueued = @ + 1])

\* the for loop over the edges at the current vertex (lines 119-150 with
\* connection_type 1, lines 159-193 with connection_type 2)
RECURSIVE bfs_edges(_, _, _, _, _, _)
bfs_edges(self, connection_matrix, connection_type, current_vertex, edge_idx, p) ==
    IF edge_idx >= Len(self.edges)
    THEN p
    ELSE IF connection_matrix.at[current_vertex][edge_idx] # connection_type
    THEN bfs_edges(self, connection_matrix, connection_type, current_vertex,
                   edge_idx + 1, p)
    ELSE IF p.colour.at[current_vertex][edge_idx] # 0
    THEN bfs_edges(self, connection_matrix, connection_type, current_vertex,
                   edge_idx + 1, p)
    ELSE LET edge == self.edges[edge_idx + 1]
             node == IF connection_type = 1 THEN getEnd(edge) ELSE getStart(edge)
             vertex_idx == find_vertex_by_coordinates(self.vertices,
                                                      coordinates(node), CoordTol)
             marked == [p EXCEPT
                          !.colour = SetEntry(@, current_vertex, edge_idx, 1),
                          !.processed = Append(@, <<current_vertex, edge_idx>>)]
         IN  IF vertex_idx = -1
             THEN bfs_edges(self, connection_matrix, connection_type,
                      current_vertex, edge_idx + 1,
                      [marked EXCEPT !.warnings = @ + 1])
             ELSE bfs_edges(self, connection_matrix, connection_type,
                      current_vertex, edge_idx + 1,
                      [marked EXCEPT
                         !.incidence_matrix =
                             SetEntry(@, current_vertex, edge_idx, vertex_idx),
                         !.queue = Append(@, <<vertex_idx, edge_idx>>),
                         !.enqueued = @ + 1])

\* one iteration of the while loop: popleft, then the for loop
bfs_pop(self, connection_matrix, connection_type, p) ==
    LET current_vertex == Head(p.queue)[1]
    IN  bfs_edges(self, connection_matrix, connection_type, current_vertex, 0,
                  [p EXCEPT !.queue = Tail(@)])

\* the while loop
RECURSIVE bfs_while(_, _, _, _)
bfs_while(self, connection_matrix, connection_type, p) ==
    IF p.queue = <<>>
    THEN p
    ELSE bfs_while(self, connection_matrix, connection_type,
                   bfs_pop(self, connection_matrix, connection_type, p))

build_incidence_matrices(self, connection_matrix, incidence_matrix_ds, incidence_matrix_us, num_vertices, num_edges) ==
    LET us == bfs_while(self, connection_matrix, 1,
                  bfs_seed(self, num_vertices, num_edges, incidence_matrix_us))
        ds == bfs_while(self, connection_matrix, 2,
                  bfs_seed(self, num_vertices, num_edges, incidence_matrix_ds))
    IN  [ds |-> ds.incidence_matrix, us |-> us.incidence_matrix]

(***************************************************************************)
(* The state machine of a Catchment: construction, then connect() calls.   *)
(***************************************************************************)
Self ==
    [vertices |-> vertices,
     edges |-> edges,
     incidenceMatrixDS |-> incidenceMatrixDS,
     incidenceMatrixUS |-> incidenceMatrixUS,
     out_node_index |-> out_node_index]

SetSelf(self) ==
    /\ vertices' = self.vertices
    /\ edges' = self.edges
    /\ incidenceMatrixDS' = self.incidenceMatrixDS
    /\ incidenceMatrixUS' = self.incidenceMatrixUS
    /\ out_node_index' = self.out_node_index

\* collinear positions spaced by the tolerance: an endpoint and a vertex
\* coincide, lie exactly at the tolerance, or lie beyond it
LinePoints == {Point(x, 0) : x \in 0..(2 * DefaultTol)}

\* two sites a tolerance apart
VertexSites == {Point(x, 0) : x \in 0..DefaultTol}

GridPoints == {Point(x, y) : x \in 0..GridMax, y \in 0..GridMax}

Confluences(points) == {Confluence(p[1], p[2], out) : p \in points, out \in BOOLEAN}

Basins(points) == {Basin(p[1], p[2]) : p \in points}

Reaches(points) == {Reach(s, t) : s \in points, t \in points}

Constructed(self) ==
    /\ vertices = self.vertices
    /\ edges = self.edges
    /\ incidenceMatrixDS = self.incidenceMatrixDS
    /\ incidenceMatrixUS = self.incidenceMatrixUS
    /\ out_node_index = self.out_node_index
    /\ ret = NoCall
    /\ logged = 0
    /\ bfs = NoBfs
    /\ traveller = NoTraveller
    /\ wbnm = NoWBNM
    /\ app = NoMain
    /\ builder = NoBuilder

\* any confluences, basins and reaches: vertices on the two sites, reach ends
\* anywhere on the line
AnyCatchment ==
    \E nc \in 0..MaxVertices :
      \E nb \in 0..(MaxVertices - nc) :
        \E ne \in 0..MaxEdges :
          \E confluences \in [1..nc -> Confluences(VertexSites)] :
            \E basins \in [1..nb -> Basins(VertexSites)] :
              \E reaches \in [1..ne -> Reaches(LinePoints)] :
                Constructed(Catchment(confluences, basins, reaches))

RECURSIVE LeadsTo(_, _, _, _)
LeadsTo(parent, v, root, steps) ==
    IF v = root THEN TRUE
    ELSE IF steps = 0 THEN FALSE
    ELSE LeadsTo(parent, parent[v], root, steps - 1)

\* a well-formed tree: n vertices on n distinct positions a tolerance apart,
\* one Confluence flagged as outlet, and from every other vertex one reach
\* to the vertex downstream of it, the reaches listed in any order
TreeCatchment ==
    \E n \in 1..MaxTreeVertices :
      \E nc \in 1..n :
        \E outlet \in 1..nc :
          \E pos \in {f \in [1..n -> 0..(n - 1)] :
                         \A i \in 1..n : \A j \in 1..n : f[i] = f[j] => i = j} :
            \E parent \in {f \in [(1..n) \ {outlet} -> 1..n] :
                              \A v \in (1..n) \ {outlet} :
                                  LeadsTo(f, v, outlet, n)} :
              \E order \in {f \in [1..(n - 1) -> (1..n) \ {outlet}] :
                               \A i \in 1..(n - 1) : \A j \in 1..(n - 1) :
                                   f[i] = f[j] => i = j} :
                Constructed(Catchment(
                    [i \in 1..nc |-> Confluence(pos[i] * DefaultTol, 0, i = outlet)],
                    [j \in 1..(n - nc) |-> Basin(pos[nc + j] * DefaultTol, 0)],
                    [k \in 1..(n - 1) |->
                        Reach(Point(pos[order[k]] * DefaultTol, 0),
                              Point(pos[parent[order[k]]] * DefaultTol, 0))]))

Init == AnyCatchment \/ TreeCatchment

Connect ==
    \E call \in {connect(Self)} :
        /\ SetSelf(call.self)
        /\ ret' = call.ret
        /\ logged' = call.logged
        /\ UNCHANGED other_vars

Next == Connect

Spec == Init /\ [][Next]_vars

(***************************************************************************)
(* The nearest-vertex match on its own: a Catchment of Basins on a plane   *)
(* grid, queried with a point and a tolerance.                             *)
(***************************************************************************)
InitMatch ==
    \E nb \in 0..MaxMatchVertices :
      \E basins \in [1..nb -> Basins(GridPoints)] :
        Constructed(Catchment(<<>>, basins, <<>>))

FindClosestVertex ==
    \E xy \in GridPoints :
      \E tol \in 0..MaxTol :
        /\ ret' = Returned("_find_closest_vertex", <<xy, tol>>,
                           <<find_closest_vertex(vertices, [xy |-> xy], tol)>>)
        /\ UNCHANGED <<catchment_vars, logged, other_vars>>

FindVertexByCoordinates ==
    \E xy \in GridPoints :
      \E tol \in 0..MaxTol :
        /\ ret' = Returned("_find_vertex_by_coordinates", <<xy, tol>>,
                           <<find_vertex_by_coordinates(vertices, xy, tol)>>)
        /\ UNCHANGED <<catchment_vars, logged, other_vars>>

NextMatch == FindClosestVertex

SpecMatch == InitMatch /\ [][NextMatch]_vars

\* the coordinate lookup on the same catchments
NextLookup == FindVertexByCoordinates

SpecLookup == InitMatch /\ [][NextLookup]_vars

(***************************************************************************)
(* _build_incidence_matrices step by step, one action per while iteration. *)
(* The Catchment is as connect() has it at line 250: the outlet index      *)
(* found, the tables not yet stored.  Vertex i stands at (i * Far, 0),     *)
(* beyond the lookup tolerance of every other vertex; every reach runs     *)
(* from a vertex to a vertex, so connect()'s first loop binds its ends to  *)
(* these two and the connection matrix passed in has 1 at the start vertex *)
(* of the column's reach and 2 at its end vertex, the 2 written last.      *)
(***************************************************************************)
Far == 2 * CoordTol

FarSite(i) == Point(i * Far, 0)

connection_of(num_vertices, from, to) ==
    [shape |-> <<num_vertices, Len(from)>>,
     at |-> [v \in 0..(num_vertices - 1) |->
               [e \in 0..(Len(from) - 1) |->
                  IF v = to[e + 1] THEN 2
                  ELSE IF v = from[e + 1] THEN 1
                  ELSE 0]]]

InitBFS ==
    \E n \in 1..MaxBfsVertices :
      \E outlet \in 0..(n - 1) :
        \E ne \in 0..MaxBfsEdges :
          \E from \in [1..ne -> 0..(n - 1)] :
            \E to \in [1..ne -> 0..(n - 1)] :
              /\ vertices = [i \in 1..n |->
                                Confluence((i - 1) * Far, 0, i - 1 = outlet)]
              /\ edges = [k \in 1..ne |->
                             Reach(FarSite(from[k]), FarSite(to[k]))]
              /\ incidenceMatrixDS = EmptyArray
              /\ incidenceMatrixUS = EmptyArray
              /\ out_node_index = outlet
              /\ ret = NoCall
              /\ logged = 0
              /\ bfs = [pc |-> "call",
                        connection_matrix |-> connection_of(n, from, to),
                        incidence_matrix_ds |-> np_full(n, ne, endSentinel),
                        incidence_matrix_us |-> np_full(n, ne, endSentinel)]
              /\ traveller = NoTraveller
              /\ wbnm = NoWBNM
              /\ app = NoMain
              /\ builder = NoBuilder

\* lines 109-114
UpstreamStart ==
    /\ bfs.pc = "call"
    /\ bfs' = [pc |-> "us",
               connection_matrix |-> bfs.connection_matrix,
               us |-> bfs_seed(Self, Len(vertices), Len(edges),
                               bfs.incidence_matrix_us),
               incidence_matrix_ds |-> bfs.incidence_matrix_ds]
    /\ UNCHANGED <<catchment_vars, ret, logged, traveller, wbnm, app, builder>>

\* lines 116-150, one iteration
UpstreamStep ==
    /\ bfs.pc = "us"
    /\ bfs.us.queue # <<>>
    /\ bfs' = [bfs EXCEPT !.us = bfs_pop(Self, bfs.connection_matrix, 1, @)]
    /\ UNCHANGED <<catchment_vars, ret, logged, traveller, wbnm, app, builder>>

\* lines 152-154
DownstreamStart ==
    /\ bfs.pc = "us"
    /\ bfs.us.queue = <<>>
    /\ bfs' = [pc |-> "ds",
               connection_matrix |-> bfs.connection_matrix,
               us |-> bfs.us,
               ds |-> bfs_seed(Self, Len(vertices), Len(edges),
                               bfs.incidence_matrix_ds)]
    /\ UNCHANGED <<catchment_vars, ret, logged, traveller, wbnm, app, builder>>

\* lines 156-193, one iteration
DownstreamStep ==
    /\ bfs.pc = "ds"
    /\ bfs.ds.queue # <<>>
    /\ bfs' = [bfs EXCEPT !.ds = bfs_pop(Self, bfs.connection_matrix, 2, @)]
    /\ UNCHANGED <<catchment_vars, ret, logged, traveller, wbnm, app, builder>>

\* the end of the function: it returns None, the caller's matrices filled
BuildReturn ==
    /\ bfs.pc = "ds"
    /\ bfs.ds.queue = <<>>
    /\ bfs' = [bfs EXCEPT !.pc = "done"]
    /\ ret' = Returned("_build_incidence_matrices", <<>>, <<>>)
    /\ logged' = bfs.us.warnings + bfs.ds.warnings
    /\ UNCHANGED <<catchment_vars, traveller, wbnm, app, builder>>

NextBFS ==
    \/ UpstreamStart
    \/ UpstreamStep
    \/ DownstreamStart
    \/ DownstreamStep
    \/ BuildReturn

\* the function runs to its end uninterrupted
SpecBFS == InitBFS /\ [][NextBFS]_vars /\ WF_vars(NextBFS)

(***************************************************************************)
(* The Traveller.  Its class is not among the sources; it is modelled from *)
(* the specification (4.4): the pre-order sequence is computed once, by a  *)
(* depth-first walk from the outlet along the US links that emits a vertex *)
(* when it is first reached, and next() / nextAbsolute() step through it.  *)
(* seen lists the positions the steps produced, extra counts the next()    *)
(* calls made in the finished state.                                       *)
(***************************************************************************)
RowEntries(matrix, i) ==
    LET num_edges == matrix.shape[2]
        first == {e \in 0..(num_edges - 1) :
                     /\ matrix.at[i][e] # endSentinel
                     /\ \A j \in 0..(e - 1) : matrix.at[i][j] # matrix.at[i][e]}
    IN  [k \in 1..Cardinality(first) |->
            matrix.at[i][CHOOSE e \in first :
                            Cardinality({j \in first : j < e}) = k - 1]]

\* all vertices directly upstream of i, deduplicated, in edge order
up(self, i) == RowEntries(self.incidenceMatrixUS, i)

\* the vertex directly downstream of i, the end sentinel when there is none
down(self, i) ==
    LET entries == RowEntries(self.incidenceMatrixDS, i)
    IN  IF entries = <<>> THEN endSentinel ELSE entries[1]

InRange(self, i) == i \in 0..(Len(self.vertices) - 1)

getNode(self, i) == self.vertices[i + 1]

Emitted(order) == {order[k] : k \in 1..Len(order)}

RECURSIVE preorder(_, _, _)
RECURSIVE preorder_children(_, _, _, _)
preorder(self, v, order) ==
    IF v \in Emitted(order)
    THEN order
    ELSE preorder_children(self, up(self, v), 1, Append(order, v))

preorder_children(self, children, k, order) ==
    IF k > Len(children)
    THEN order
    ELSE preorder_children(self, children, k + 1,
                           preorder(self, children[k], order))

Traveller(self) ==
    [pc |-> "beforeStart",
     order |-> preorder(self, self.out_node_index, <<>>),
     cursor |-> 0,
     seen |-> <<>>,
     extra |-> 0]

position(t) == IF t.pc = "at" THEN t.order[t.cursor] ELSE endSentinel

\* a next() that starts the sequence again after its end
next_wraps(t) ==
    IF t.pc = "finished"
    THEN [t EXCEPT !.pc = "at", !.cursor = 1, !.extra = @ + 1]
    ELSE IF t.cursor >= Len(t.order)
    THEN [t EXCEPT !.pc = "finished", !.seen = Append(@, endSentinel)]
    ELSE [t EXCEPT !.pc = "at", !.cursor = @ + 1,
                   !.seen = Append(@, t.order[t.cursor + 1])]

next(t) ==
    IF t.pc = "finished"
    THEN [t EXCEPT !.extra = @ + 1]
    ELSE IF t.cursor >= Len(t.order)
    THEN [t EXCEPT !.pc = "finished", !.seen = Append(@, endSentinel)]
    ELSE [t EXCEPT !.pc = "at", !.cursor = @ + 1,
                   !.seen = Append(@, t.order[t.cursor + 1])]

nextAbsolute(t) == next(t)

(***************************************************************************)
(* WBNM._getDsIndex (wbnm.py 53-64).  getNode fails with IndexOutOfRange   *)
(* on an index outside the vertex list (specification, 7).  The recursion  *)
(* has no guard: when down() leads round a cycle it ends in Python's       *)
(* RecursionError, which is what a depth beyond the number of vertices     *)
(* stands for here (by then a vertex has been visited twice).              *)
(***************************************************************************)
Return(value) == [kind |-> "return", value |-> value, exc |-> ""]

Raise(exc) == [kind |-> "raise", value |-> endSentinel, exc |-> exc]

\* a resolution that stops at the first vertex downstream, whatever it is
getDsIndex_first_vertex(self, i, depth) ==
    LET ds == down(self, i)
    IN  IF ~InRange(self, ds)
        THEN Raise("IndexOutOfRange")
        ELSE IF isinstance(getNode(self, ds), "Confluence") /\ getNode(self, ds).isOut
        THEN Return(endSentinel)
        ELSE Return(ds)

RECURSIVE getDsIndex(_, _, _)
getDsIndex(self, i, depth) ==
    CHOOSE result \in
        {IF depth > Len(self.vertices)
         THEN Raise("RecursionError")
         ELSE IF ~InRange(self, ds)
         THEN Raise("IndexOutOfRange")
         ELSE IF isinstance(getNode(self, ds), "Basin")
         THEN Return(ds)
         ELSE IF isinstance(getNode(self, ds), "Confluence") /\ getNode(self, ds).isOut
         THEN Return(endSentinel)
         ELSE getDsIndex(self, ds, depth + 1) : ds \in {down(self, i)}} : TRUE

(***************************************************************************)
(* WBNM._subAreaFactory (wbnm.py 35-51): the body of its while loop and    *)
(* the for loop after it.                                                  *)
(***************************************************************************)
SubArea(self, i, bottomCoordinate, streamChannel, dsNodeIndex) ==
    [node |-> i,
     bottomCoordinate |-> bottomCoordinate,
     streamChannel |-> streamChannel,
     dsNodeIndex |-> dsNodeIndex]

\* the body with nextAbsolute() inside the if: no step at a Confluence
subAreaFactory_body_basin_only(self, t, w) ==
    LET pos == position(t)
    IN  IF isinstance(getNode(self, pos), "Basin")
        THEN LET ds == getDsIndex(self, pos, 0)
             IN  IF ~InRange(self, down(self, pos))
                 THEN [traveller |-> t, wbnm |-> w, exc |-> "IndexOutOfRange"]
                 ELSE IF ds.kind = "raise"
                 THEN [traveller |-> t, wbnm |-> w, exc |-> ds.exc]
                 ELSE [traveller |-> nextAbsolute(t),
                       wbnm |-> [w EXCEPT !.subAreas = Append(@,
                          SubArea(self, pos,
                                  coordinates(getNode(self, down(self, pos))),
                                  Len(up(self, pos)) # 0, ds.value))],
                       exc |-> ""]
        ELSE [traveller |-> t, wbnm |-> w, exc |-> ""]

\* the body taking streamChannel from the downstream side
subAreaFactory_body_channel_down(self, t, w) ==
    LET pos == position(t)
    IN  IF isinstance(getNode(self, pos), "Basin")
        THEN LET ds == getDsIndex(self, pos, 0)
             IN  IF ~InRange(self, down(self, pos))
                 THEN [traveller |-> t, wbnm |-> w, exc |-> "IndexOutOfRange"]
                 ELSE IF ds.kind = "raise"
                 THEN [traveller |-> t, wbnm |-> w, exc |-> ds.exc]
                 ELSE [traveller |-> nextAbsolute(t),
                       wbnm |-> [w EXCEPT !.subAreas = Append(@,
                          SubArea(self, pos,
                                  coordinates(getNode(self, down(self, pos))),
                                  down(self, pos) # endSentinel, ds.value))],
                       exc |-> ""]
        ELSE [traveller |-> nextAbsolute(t), wbnm |-> w, exc |-> ""]

subAreaFactory_body(self, t, w) ==
    LET pos == position(t)
    IN  IF isinstance(getNode(self, pos), "Basin")
        THEN LET ds == getDsIndex(self, pos, 0)
             IN  IF ~InRange(self, down(self, pos))
                 THEN [traveller |-> t, wbnm |-> w, exc |-> "IndexOutOfRange"]
                 ELSE IF ds.kind = "raise"
                 THEN [traveller |-> t, wbnm |-> w, exc |-> ds.exc]
                 ELSE [traveller |-> nextAbsolute(t),
                       wbnm |-> [w EXCEPT !.subAreas = Append(@,
                          SubArea(self, pos,
                                  coordinates(getNode(self, down(self, pos))),
                                  Len(up(self, pos)) # 0, ds.value))],
                       exc |-> ""]
        ELSE [traveller |-> nextAbsolute(t), wbnm |-> w, exc |-> ""]

\* Basin("SINK"), line 49
SinkBasin == [kind |-> "Basin", name |-> "SINK"]

\* the for loop taking the vertex directly downstream of each sub-area
dsSubAreas_directly_down(self, w) ==
    [k \in 1..Len(w.subAreas) |->
        IF w.subAreas[k].dsNodeIndex = endSentinel
        THEN SinkBasin
        ELSE getNode(self, down(self, w.subAreas[k].node))]

\* lines 47-51: the downstream sub-area of each sub-area, the synthetic
\* SINK basin for the end sentinel
dsSubAreas(self, w) ==
    [k \in 1..Len(w.subAreas) |->
        IF w.subAreas[k].dsNodeIndex = endSentinel
        THEN SinkBasin
        ELSE getNode(self, w.subAreas[k].dsNodeIndex)]

(***************************************************************************)
(* A Traveller over a connected catchment and what is done with it.  The   *)
(* catchment has its outlet Confluence first and one reach from every      *)
(* other vertex to some other vertex, so that chains, trees, and cycles    *)
(* that never reach the outlet all occur; vertex i stands at (i, 0).       *)
(***************************************************************************)
WalkCatchment(max_vertices) ==
    \E n \in 1..max_vertices :
      \E nc \in 1..n :
        \E target \in {f \in [1..(n - 1) -> 0..(n - 1)] :
                          \A v \in 1..(n - 1) : f[v] # v} :
          Constructed(Catchment(
              [i \in 1..nc |-> Confluence((i - 1) * DefaultTol, 0, i = 1)],
              [j \in 1..(n - nc) |-> Basin((nc + j - 1) * DefaultTol, 0)],
              [k \in 1..(n - 1) |->
                  Reach(Point(k * DefaultTol, 0),
                        Point(target[k] * DefaultTol, 0))]))

InitWalk == WalkCatchment(MaxWalkVertices)

\* catchment.connect() before the Traveller is made (app.py 106 and 120)
ConnectFirst == traveller = NoTraveller /\ Connect

\* pyromb.Traveller(catchment) after a successful connect()
NewTraveller ==
    /\ ret.op = "connect" /\ ret.kind = "return"
    /\ traveller = NoTraveller
    /\ traveller' = Traveller(Self)
    /\ ret' = Returned("Traveller", <<>>, <<>>)
    /\ UNCHANGED <<catchment_vars, logged, bfs, wbnm, app, builder>>

\* traveller.next() called from outside the WBNM model
TravellerNext ==
    /\ traveller.pc \in {"beforeStart", "at", "finished"}
    /\ wbnm.pc = "none"
    /\ traveller.extra < MaxExtraCalls
    /\ traveller' = next(traveller)
    /\ ret' = Returned("next", <<>>, <<>>)
    /\ UNCHANGED <<catchment_vars, logged, bfs, wbnm, app, builder>>

\* _getDsIndex(traveller, i) for a Basin i, as _subAreaFactory calls it
GetDsIndex ==
    /\ traveller.pc = "beforeStart"
    /\ wbnm.pc = "none"
    /\ \E i \in 0..(Len(vertices) - 1) :
         /\ isinstance(vertices[i + 1], "Basin")
         /\ \E result \in {getDsIndex(Self, i, 0)} :
              ret' = IF result.kind = "raise"
                     THEN Raised("_getDsIndex", <<i>>, result.exc)
                     ELSE Returned("_getDsIndex", <<i>>, <<result.value>>)
    /\ UNCHANGED <<catchment_vars, logged, bfs, traveller, wbnm, app, builder>>

\* line 37
SubAreaFactoryStart ==
    /\ traveller.pc = "beforeStart"
    /\ wbnm.pc = "none"
    /\ traveller' = next(traveller)
    /\ wbnm' = [pc |-> "loop", subAreas |-> <<>>]
    /\ ret' = NoCall
    /\ UNCHANGED <<catchment_vars, logged, bfs, app, builder>>

\* lines 39-46, one iteration
SubAreaFactoryStep ==
    /\ wbnm.pc = "loop"
    /\ position(traveller) # endSentinel
    /\ \E body \in {subAreaFactory_body(Self, traveller, wbnm)} :
         /\ traveller' = body.traveller
         /\ wbnm' = IF body.exc = "" THEN body.wbnm
                    ELSE [body.wbnm EXCEPT !.pc = "raised"]
         /\ ret' = IF body.exc = "" THEN ret
                   ELSE Raised("_subAreaFactory", <<>>, body.exc)
    /\ UNCHANGED <<catchment_vars, logged, bfs, app, builder>>

\* lines 47-51
SubAreaFactoryEnd ==
    /\ wbnm.pc = "loop"
    /\ position(traveller) = endSentinel
    /\ wbnm' = [wbnm EXCEPT !.pc = "done"]
    /\ ret' = Returned("_subAreaFactory", <<>>, <<dsSubAreas(Self, wbnm)>>)
    /\ UNCHANGED <<catchment_vars, logged, bfs, traveller, app, builder>>

NextWalk ==
    \/ ConnectFirst
    \/ NewTraveller
    \/ TravellerNext
    \/ SubAreaFactoryStart
    \/ SubAreaFactoryStep
    \/ SubAreaFactoryEnd

\* _subAreaFactory, once called, runs on
SpecWalk ==
    InitWalk /\ [][NextWalk]_vars /\ WF_vars(SubAreaFactoryStep \/ SubAreaFactoryEnd)

(***************************************************************************)
(* WBNM.getVector called again and again on one WBNM instance, each time   *)
(* with a fresh Traveller over the same catchment (wbnm.py 11-33).         *)
(* wbnm.calls counts the calls; the sub-area list is made once, empty, by  *)
(* WBNM.__init__ (line 20).                                                *)
(***************************************************************************)
\* a getVector that starts from an empty sub-area list every time
getVector_begin_clearing(w) ==
    IF w.pc = "none"
    THEN [pc |-> "loop", subAreas |-> <<>>, calls |-> 1]
    ELSE [w EXCEPT !.pc = "loop", !.subAreas = <<>>, !.calls = @ + 1]

\* the state of the WBNM instance as _subAreaFactory begins
getVector_begin(w) ==
    IF w.pc = "none"
    THEN [pc |-> "loop", subAreas |-> <<>>, calls |-> 1]
    ELSE [w EXCEPT !.pc = "loop", !.calls = @ + 1]

\* the number of sub-areas the topology block reports (line 158)
blockTopology(w) == Len(w.subAreas)

InitRepeat == WalkCatchment(MaxRepeatVertices)

\* pyromb.Traveller(catchment), the first or one more
FreshTraveller ==
    /\ \/ ret.op = "connect" /\ ret.kind = "return" /\ traveller = NoTraveller
       \/ wbnm.pc = "returned" /\ wbnm.calls < MaxCalls /\ traveller.pc = "finished"
    /\ traveller' = Traveller(Self)
    /\ ret' = Returned("Traveller", <<>>, <<>>)
    /\ UNCHANGED <<catchment_vars, logged, bfs, wbnm, app, builder>>

\* getVector: line 23 and line 37
GetVectorStart ==
    /\ traveller.pc = "beforeStart"
    /\ wbnm.pc \in {"none", "returned"}
    /\ traveller' = next(traveller)
    /\ wbnm' = getVector_begin(wbnm)
    /\ ret' = NoCall
    /\ UNCHANGED <<catchment_vars, logged, bfs, app, builder>>

\* getVector: lines 24-33, the code blocks, the topology block among them
GetVectorReturn ==
    /\ wbnm.pc = "done"
    /\ wbnm' = [wbnm EXCEPT !.pc = "returned"]
    /\ ret' = Returned("getVector", <<>>, <<blockTopology(wbnm)>>)
    /\ UNCHANGED <<catchment_vars, logged, bfs, traveller, app, builder>>

NextRepeat ==
    \/ ConnectFirst
    \/ FreshTraveller
    \/ GetVectorStart
    \/ SubAreaFactoryStep
    \/ SubAreaFactoryEnd
    \/ GetVectorReturn

SpecRepeat == InitRepeat /\ [][NextRepeat]_vars

\* the effective-downstream resolution on its own, on longer chains
InitDs == WalkCatchment(MaxChainVertices)

NextDs == ConnectFirst \/ NewTraveller \/ GetDsIndex

SpecDs == InitDs /\ [][NextDs]_vars

(***************************************************************************)
(* Vector layers as the Builder and the validation functions see them      *)
(* (vector_layer.py, sf_vector_layer.py, shapefile_validation.py).         *)
(* A field name is its letters and whether they are written in capitals,   *)
(* so that "ID" and "id" are different keys with the same lower().  An     *)
(* attribute value is None, an integer or a string.  A layer has its field *)
(* definitions and, per feature, the values in field order and a geometry: *)
(* empty or not, valid or not, its (2D) type and, for a multi-geometry,    *)
(* the number of parts (0 for a single geometry).                          *)
(***************************************************************************)
FieldName(text, upper) == [text |-> text, upper |-> upper]

\* str.lower()
lower(name) == [name EXCEPT !.upper = FALSE]

None == [kind |-> "None"]

Integer(n) == [kind |-> "int", value |-> n]

Str(text) == [kind |-> "str", text |-> text]

\* str.strip() on strings of blanks and letters
strip(text) == IF text = " " THEN "" ELSE text

\* bool(value)
bool(value) ==
    CASE value.kind = "None" -> FALSE
      [] value.kind = "int" -> value.value # 0
      [] value.kind = "str" -> value.text # ""

Field(name, type) == [name |-> name, type |-> type]

Geometry(type, parts) == [empty |-> FALSE, valid |-> TRUE, type |-> type, parts |-> parts]

EmptyGeometry == [empty |-> TRUE, valid |-> TRUE, type |-> "Point", parts |-> 0]

InvalidGeometry == [empty |-> FALSE, valid |-> FALSE, type |-> "Point", parts |-> 0]

Feature(values, geometry, xy) == [values |-> values, geometry |-> geometry, xy |-> xy]

VectorLayer(fields, features) == [fields |-> fields, features |-> features]

\* SFVectorLayer.get_fields
get_fields(vector_layer) == vector_layer.fields

\* SFVectorLayer.record with dict.get: dict(zip(fields, values)) keeps the
\* last value of a repeated key, and get() gives None for a missing key
get_attribute(vector_layer, i, key) ==
    LET hits == {j \in 1..Len(vector_layer.fields) : vector_layer.fields[j].name = key}
    IN  IF hits = {}
        THEN None
        ELSE vector_layer.features[i + 1].values[
                 CHOOSE j \in hits : \A k \in hits : k <= j]

\* type_mappings.get(exp_type, [exp_type]), lines 171-176 and 190
type_mappings(exp_type) ==
    IF exp_type \in {"Integer", "Integer64"}
    THEN {"Integer", "Integer64"}
    ELSE {exp_type}

\* lines 260-296: no required field of any feature is None or a blank string
validate_field_data_integrity(vector_layer, expected_fields) ==
    \A i \in 0..(Len(vector_layer.features) - 1) :
        \A k \in 1..Len(expected_fields) :
            LET exp_name == expected_fields[k].name
                value == get_attribute(vector_layer, i, exp_name)
            IN  /\ value # None
                /\ ~(value.kind = "str" /\ strip(value.text) = "")

\* lines 130-211: every expected field is present under its lower-case name
\* with an acceptable type, and then the data integrity of the fields
validate_shapefile_fields(vector_layer, expected_fields) ==
    LET actual_fields == get_fields(vector_layer)
        actual_field_names ==
            {lower(actual_fields[j].name) : j \in 1..Len(actual_fields)}
        actual_field_types(name) ==
            actual_fields[CHOOSE j \in 1..Len(actual_fields) :
                /\ lower(actual_fields[j].name) = name
                /\ \A k \in (j + 1)..Len(actual_fields) :
                       lower(actual_fields[k].name) # name].type
        validation_passed ==
            \A k \in 1..Len(expected_fields) :
                LET exp_name == lower(expected_fields[k].name)
                IN  /\ exp_name \in actual_field_names
                    /\ actual_field_types(exp_name)
                           \in type_mappings(expected_fields[k].type)
    IN  IF validation_passed
        THEN validate_field_data_integrity(vector_layer, expected_fields)
        ELSE FALSE

\* expected_geometry_types.get(layer_type.lower()), lines 27-35
expected_geometry_types(layer_type) ==
    CASE layer_type = "reaches" -> "LineString"
      [] layer_type = "basins" -> "Polygon"
      [] layer_type = "confluences" -> "Point"
      [] layer_type = "centroids" -> "Point"
      [] OTHER -> "None"

\* lines 45-92 for one feature: not empty, valid, at most one part, and of
\* the expected type (a multi-geometry counts as its single type)
geometry_passes(geometry, expected_geom_type) ==
    /\ ~geometry.empty
    /\ geometry.valid
    /\ geometry.parts \in {0, 1}
    /\ geometry.type = expected_geom_type

\* validate_shapefile_geometries, lines 7-99
validate_shapefile_geometries(vector_layer, layer_type) ==
    LET expected_geom_type == expected_geometry_types(layer_type)
    IN  IF expected_geom_type = "None"
        THEN FALSE
        ELSE \A i \in 1..Len(vector_layer.features) :
                 geometry_passes(vector_layer.features[i].geometry, expected_geom_type)

\* line 316
out_values(vector_layer) ==
    [i \in 1..Len(vector_layer.features) |->
        get_attribute(vector_layer, i - 1, FieldName("out", FALSE))]

\* list.count(1) == 1 only
validate_confluences_out_field_ones_only(vector_layer) ==
    LET values == out_values(vector_layer)
        count_ones == Cardinality({i \in 1..Len(values) : values[i] = Integer(1)})
    IN  count_ones = 1

\* validate_confluences_out_field: exactly one 'out' of 1, the others 0
validate_confluences_out_field(vector_layer) ==
    LET values == out_values(vector_layer)
        count_ones == Cardinality({i \in 1..Len(values) : values[i] = Integer(1)})
        count_zeros == Cardinality({i \in 1..Len(values) : values[i] = Integer(0)})
        total_records == Len(values)
    IN  count_ones = 1 /\ count_zeros = total_records - 1

(***************************************************************************)
(* main() of app.py, stage by stage (lines 59-146).  Every stage is a try  *)
(* block whose except clause logs the error and returns.  app.done lists   *)
(* the stages that have succeeded, app.failed names the stage that raised, *)
(* app.written tells whether f.write() has been executed.  What the layers *)
(* hold is the input: confluence records with their 'out' field and        *)
(* geometry (a record without geometry is skipped by Builder.confluence),  *)
(* basins and reaches.                                                     *)
(***************************************************************************)
Stages == <<"load", "builder", "build", "create", "connect", "traveller", "write">>

StageAfter(stage) ==
    IF stage = "write" THEN "end"
    ELSE Stages[1 + CHOOSE k \in 1..Len(Stages) : Stages[k] = stage]

\* an except clause without its return: main() goes on to the next stage
main_stage_falls_through(a, stage, ok) ==
    IF ok
    THEN [a EXCEPT !.pc = StageAfter(stage), !.done = Append(@, stage)]
    ELSE [a EXCEPT !.pc = StageAfter(stage), !.failed = stage]

\* the end of a try block: on to the next stage, or logging.error and return
main_stage(a, stage, ok) ==
    IF ok
    THEN [a EXCEPT !.pc = StageAfter(stage), !.done = Append(@, stage)]
    ELSE [a EXCEPT !.pc = "returned", !.failed = stage]

\* Builder.confluence after validation (lines 333-354): a Confluence for
\* every feature that has a geometry
RECURSIVE builder_confluence(_, _)
builder_confluence(confluence_layer, i) ==
    IF i >= Len(confluence_layer.features)
    THEN <<>>
    ELSE IF confluence_layer.features[i + 1].geometry.empty
    THEN builder_confluence(confluence_layer, i + 1)
    ELSE LET xy == confluence_layer.features[i + 1].xy
             out_field == get_attribute(confluence_layer, i, FieldName("out", FALSE))
         IN  <<Confluence(xy[1], xy[2], bool(out_field))>>
             \o builder_confluence(confluence_layer, i + 1)

\* confluence features at the origin: their 'out' value, with or without a
\* geometry
ConfluenceRecords ==
    {Feature(<<Integer(out)>>, geometry, Point(0, 0)) :
        out \in {0, 1}, geometry \in {Geometry("Point", 0), EmptyGeometry}}

ConfluenceLayer(features) ==
    VectorLayer(<<Field(FieldName("out", FALSE), "Integer")>>, features)

InitMain ==
    \E nc \in 0..MaxMainVertices :
      \E nb \in 0..(MaxMainVertices - nc) :
        \E ne \in 0..MaxMainEdges :
          \E records \in [1..nc -> ConfluenceRecords] :
            \E basins \in [1..nb -> Basins({Point(DefaultTol, 0)})] :
              \E reaches \in [1..ne -> Reaches(VertexSites)] :
                /\ vertices = <<>>
                /\ edges = <<>>
                /\ incidenceMatrixDS = EmptyArray
                /\ incidenceMatrixUS = EmptyArray
                /\ out_node_index = -1
                /\ ret = NoCall
                /\ logged = 0
                /\ bfs = NoBfs
                /\ traveller = NoTraveller
                /\ wbnm = NoWBNM
                /\ builder = NoBuilder
                /\ app = [pc |-> "load", done |-> <<>>, failed |-> "",
                          written |-> FALSE,
                          layers |-> [confluences |-> ConfluenceLayer(records),
                                      basins |-> basins,
                                      reaches |-> reaches],
                          tc |-> <<>>, tb |-> <<>>, tr |-> <<>>]

\* lines 60-72: the four SFVectorLayer objects
LoadLayers ==
    /\ app.pc = "load"
    /\ \E ok \in BOOLEAN : app' = main_stage(app, "load", ok)
    /\ UNCHANGED <<catchment_vars, ret, logged, bfs, traveller, wbnm, builder>>

\* lines 75-80
CreateBuilder ==
    /\ app.pc = "builder"
    /\ \E ok \in BOOLEAN : app' = main_stage(app, "builder", ok)
    /\ UNCHANGED <<catchment_vars, ret, logged, bfs, traveller, wbnm, builder>>

\* lines 83-101: builder.reach, builder.confluence, builder.basin; the
\* validation of the 'out' field raises ValueError, as other validations may
BuildComponents ==
    /\ app.pc = "build"
    /\ \E valid \in BOOLEAN :
         LET ok == valid /\ validate_confluences_out_field(app.layers.confluences)
         IN  app' = [main_stage(app, "build", ok) EXCEPT
                        !.tr = IF ok THEN app.layers.reaches ELSE @,
                        !.tc = IF ok
                               THEN builder_confluence(app.layers.confluences, 0)
                               ELSE @,
                        !.tb = IF ok THEN app.layers.basins ELSE @]
    /\ UNCHANGED <<catchment_vars, ret, logged, bfs, traveller, wbnm, builder>>

\* lines 104-116: pyromb.Catchment(tc, tb, tr) and the first connect()
CreateCatchment ==
    /\ app.pc = "create"
    /\ \E call \in {connect(Catchment(app.tc, app.tb, app.tr))} :
         /\ SetSelf(call.self)
         /\ ret' = call.ret
         /\ logged' = call.logged
         /\ app' = main_stage(app, "create", call.ret.kind = "return")
    /\ UNCHANGED <<bfs, traveller, wbnm, builder>>

\* lines 119-129: the second connect()
ConnectAgain ==
    /\ app.pc = "connect"
    /\ \E call \in {connect(Self)} :
         /\ SetSelf(call.self)
         /\ ret' = call.ret
         /\ logged' = call.logged
         /\ app' = main_stage(app, "connect", call.ret.kind = "return")
    /\ UNCHANGED <<bfs, traveller, wbnm, builder>>

\* lines 132-137: pyromb.Traveller(catchment)
CreateTraveller ==
    /\ app.pc = "traveller"
    /\ \E ok \in BOOLEAN :
         /\ app' = main_stage(app, "traveller", ok)
         /\ traveller' = IF app'.pc = "write" THEN Traveller(Self) ELSE traveller
         /\ ret' = IF ok THEN Returned("Traveller", <<>>, <<>>)
                   ELSE Raised("Traveller", <<>>, "Exception")
    /\ UNCHANGED <<catchment_vars, logged, bfs, wbnm, builder>>

\* lines 140-146: open(output_name, "w"), getVector, f.write
WriteOutput ==
    /\ app.pc = "write"
    /\ \E ok \in BOOLEAN :
         app' = [main_stage(app, "write", ok) EXCEPT !.written = ok]
    /\ UNCHANGED <<catchment_vars, ret, logged, bfs, traveller, wbnm, builder>>

NextMain ==
    \/ LoadLayers
    \/ CreateBuilder
    \/ BuildComponents
    \/ CreateCatchment
    \/ ConnectAgain
    \/ CreateTraveller
    \/ WriteOutput

SpecMain == InitMain /\ [][NextMain]_vars

(***************************************************************************)
(* The validation functions on their own: a layer is handed to one of      *)
(* them and the result is what it returns.  No Catchment exists yet.       *)
(***************************************************************************)
NoCatchment ==
    /\ vertices = <<>>
    /\ edges = <<>>
    /\ incidenceMatrixDS = EmptyArray
    /\ incidenceMatrixUS = EmptyArray
    /\ out_node_index = -1
    /\ ret = NoCall
    /\ logged = 0
    /\ bfs = NoBfs
    /\ traveller = NoTraveller
    /\ wbnm = NoWBNM
    /\ app = NoMain

\* what the 'out' attribute of a confluence feature may hold
OutFieldValues == {None, Integer(0), Integer(1), Integer(2)}

\* confluence layers whose one field is written "out" or "OUT"
InitOutField ==
    /\ NoCatchment
    /\ \E n \in 0..MaxOutRecords :
         \E upper \in BOOLEAN :
           \E values \in [1..n -> OutFieldValues] :
             builder = [pc |-> "call",
                        layer |-> VectorLayer(
                            <<Field(FieldName("out", upper), "Integer")>>,
                            [i \in 1..n |-> Feature(<<values[i]>>,
                                                    Geometry("Point", 0),
                                                    Point(i, 0))])]

ValidateConfluencesOutField ==
    /\ builder.pc = "call"
    /\ builder' = [builder EXCEPT !.pc = "done"]
    /\ ret' = Returned("validate_confluences_out_field", <<>>,
                       <<validate_confluences_out_field(builder.layer)>>)
    /\ UNCHANGED <<catchment_vars, logged, bfs, traveller, wbnm, app>>

NextOutField == ValidateConfluencesOutField

SpecOutField == InitOutField /\ [][NextOutField]_vars

\* field names in either case, field types and attribute values of the
\* layers handed to the field validation
FieldNames == {FieldName("id", FALSE), FieldName("id", TRUE), FieldName("out", FALSE)}

FieldTypes == {"Integer", "Integer64", "String"}

FieldValues == {None, Integer(1), Str(" ")}

ExpectedFieldChoices ==
    {Field(FieldName("id", upper), type) :
        upper \in BOOLEAN, type \in {"Integer", "String"}}

InitFields ==
    /\ NoCatchment
    /\ \E nf \in 0..MaxFields :
         \E nr \in 0..MaxFieldRecords :
           \E ne \in 0..MaxExpected :
             \E names \in [1..nf -> FieldNames] :
               \E types \in [1..nf -> FieldTypes] :
                 \E values \in [1..nr -> [1..nf -> FieldValues]] :
                   \E expected_fields \in [1..ne -> ExpectedFieldChoices] :
                     builder = [pc |-> "call",
                                layer |-> VectorLayer(
                                    [j \in 1..nf |-> Field(names[j], types[j])],
                                    [i \in 1..nr |-> Feature(values[i],
                                                            Geometry("Point", 0),
                                                            Point(i, 0))]),
                                expected_fields |-> expected_fields]

ValidateShapefileFields ==
    /\ builder.pc = "call"
    /\ builder' = [builder EXCEPT !.pc = "done"]
    /\ ret' = Returned("validate_shapefile_fields", <<>>,
                       <<validate_shapefile_fields(builder.layer,
                                                   builder.expected_fields)>>)
    /\ UNCHANGED <<catchment_vars, logged, bfs, traveller, wbnm, app>>

NextFields == ValidateShapefileFields

SpecFields == InitFields /\ [][NextFields]_vars

(***************************************************************************)
(* Builder.reach, Builder.basin and Builder.confluence (builder.py) with   *)
(* Builder._validate_vector_layer (lines 86-161) step by step.             *)
(* builder.pending lists the layer types the method still has to validate, *)
(* the first being the one under validation; builder.ran is the history of *)
(* the validation functions called, builder.read counts the features the   *)
(* method's own loops have read and builder.produced the objects built.    *)
(* A centroid lies in a basin polygon when both stand at the same place.   *)
(***************************************************************************)
LayerTypes == {"reaches", "basins", "centroids", "confluences"}

\* the layers a method validates, in the order it validates them
layers_of(method) ==
    CASE method = "reach" -> <<"reaches">>
      [] method = "basin" -> <<"basins", "centroids">>
      [] method = "confluence" -> <<"confluences">>

\* specific_validations of the call, lines 326-330
specific_validations(layer_type) ==
    IF layer_type = "confluences" THEN <<"validate_confluences_out_field">> ELSE <<>>

StageAfterValidation(stage) ==
    CASE stage = "fields" -> "geometries"
      [] stage = "geometries" -> "specific"
      [] stage = "specific" -> "valid"

\* a validation whose failure is logged and then ignored
validation_step_goes_on(b, stage, passed) ==
    [b EXCEPT !.pc = StageAfterValidation(stage),
              !.ran = Append(@, <<Head(b.pending), stage>>)]

\* one validation function has been called: on to the next, or return False
validation_step(b, stage, passed) ==
    [b EXCEPT !.pc = IF passed THEN StageAfterValidation(stage) ELSE "invalid",
              !.ran = Append(@, <<Head(b.pending), stage>>)]

\* the objects a method builds from validated layers: one per feature that
\* has a geometry, for basins one per centroid that lies in a basin polygon
objects_built(method, layers) ==
    CASE method = "reach" ->
             Cardinality({i \in 1..Len(layers["reaches"].features) :
                             ~layers["reaches"].features[i].geometry.empty})
      [] method = "confluence" ->
             Len(builder_confluence(layers["confluences"], 0))
      [] method = "basin" ->
             Cardinality({i \in 1..Len(layers["centroids"].features) :
                 /\ ~layers["centroids"].features[i].geometry.empty
                 /\ \E j \in 1..Len(layers["basins"].features) :
                        /\ ~layers["basins"].features[j].geometry.empty
                        /\ layers["basins"].features[j].xy
                               = layers["centroids"].features[i].xy})

features_read(method, layers) ==
    CASE method = "reach" -> Len(layers["reaches"].features)
      [] method = "confluence" -> Len(layers["confluences"].features)
      [] method = "basin" ->
             Len(layers["basins"].features) + Len(layers["centroids"].features)

\* layers whose features have an id, present or not, an 'out' value and a
\* geometry of the right type or of another one; feature i stands at (i, 0)
BuilderLayers(layer_type) ==
    UNION {{VectorLayer(<<Field(FieldName("id", FALSE), "Integer"),
                          Field(FieldName("out", FALSE), "Integer")>>,
                        [i \in 1..n |-> Feature(<<ids[i], outs[i]>>,
                                                Geometry(types[i], 0),
                                                Point(i, 0))]) :
               ids \in [1..n -> {None, Integer(1)}],
               outs \in [1..n -> {Integer(0), Integer(1)}],
               types \in [1..n -> {expected_geometry_types(layer_type),
                                   "MultiPatch"}]} :
           n \in 0..MaxBuilderRecords}

NoLayer == VectorLayer(<<>>, <<>>)

\* self.expected_fields.get(layer_type): no entry, no field, or the id
NoEntry == [present |-> FALSE, fields |-> <<>>]

ExpectedEntries ==
    {NoEntry,
     [present |-> TRUE, fields |-> <<>>],
     [present |-> TRUE, fields |-> <<Field(FieldName("id", FALSE), "Integer")>>]}

InitBuilder ==
    /\ NoCatchment
    /\ \E method \in {"reach", "basin", "confluence"} :
         LET types == layers_of(method)
             two == Len(types) = 2
         IN  \E first \in BuilderLayers(types[1]) :
               \E second \in IF two THEN BuilderLayers(types[2]) ELSE {NoLayer} :
                 \E first_entry \in ExpectedEntries :
                   \E second_entry \in IF two THEN ExpectedEntries ELSE {NoEntry} :
                     builder = [pc |-> "lookup",
                                method |-> method,
                                pending |-> types,
                                layers |-> [t \in LayerTypes |->
                                    IF t = types[1] THEN first
                                    ELSE IF two /\ t = types[2] THEN second
                                    ELSE NoLayer],
                                expected_fields |-> [t \in LayerTypes |->
                                    IF t = types[1] THEN first_entry
                                    ELSE IF two /\ t = types[2] THEN second_entry
                                    ELSE NoEntry],
                                ran |-> <<>>,
                                read |-> 0,
                                produced |-> 0]

\* lines 112-118
LookupExpectedFields ==
    /\ builder.pc = "lookup"
    /\ builder' = [builder EXCEPT !.pc =
           IF builder.expected_fields[Head(builder.pending)].present
           THEN "fields" ELSE "invalid"]
    /\ UNCHANGED <<catchment_vars, ret, logged, bfs, traveller, wbnm, app>>

\* lines 120-135: skipped when no field is expected
FieldValidation ==
    /\ builder.pc = "fields"
    /\ LET layer_type == Head(builder.pending)
           expected_fields == builder.expected_fields[layer_type].fields
       IN  builder' =
               IF expected_fields = <<>>
               THEN [builder EXCEPT !.pc = "geometries"]
               ELSE validation_step(builder, "fields",
                        validate_shapefile_fields(builder.layers[layer_type],
                                                  expected_fields))
    /\ UNCHANGED <<catchment_vars, ret, logged, bfs, traveller, wbnm, app>>

\* lines 137-144
GeometryValidation ==
    /\ builder.pc = "geometries"
    /\ LET layer_type == Head(builder.pending)
       IN  builder' = validation_step(builder, "geometries",
               validate_shapefile_geometries(builder.layers[layer_type], layer_type))
    /\ UNCHANGED <<catchment_vars, ret, logged, bfs, traveller, wbnm, app>>

\* lines 146-161
SpecificValidation ==
    /\ builder.pc = "specific"
    /\ LET layer_type == Head(builder.pending)
       IN  builder' =
               IF specific_validations(layer_type) = <<>>
               THEN [builder EXCEPT !.pc = "valid"]
               ELSE validation_step(builder, "specific",
                        validate_confluences_out_field(builder.layers[layer_type]))
    /\ UNCHANGED <<catchment_vars, ret, logged, bfs, traveller, wbnm, app>>

\* _validate_vector_layer returned False: raise ValueError
ValidationFailed ==
    /\ builder.pc = "invalid"
    /\ builder' = [builder EXCEPT !.pc = "raised"]
    /\ ret' = Raised(builder.method, <<>>, "ValueError")
    /\ UNCHANGED <<catchment_vars, logged, bfs, traveller, wbnm, app>>

\* _validate_vector_layer returned True: the next layer of the method, or
\* its loops over the features
ValidationPassed ==
    /\ builder.pc = "valid"
    /\ IF Len(builder.pending) > 1
       THEN /\ builder' = [builder EXCEPT !.pc = "lookup", !.pending = Tail(@)]
            /\ ret' = ret
       ELSE /\ builder' = [builder EXCEPT
                   !.pc = "built",
                   !.pending = <<>>,
                   !.read = features_read(builder.method, builder.layers),
                   !.produced = objects_built(builder.method, builder.layers)]
            /\ ret' = Returned(builder.method, <<>>, <<builder'.produced>>)
    /\ UNCHANGED <<catchment_vars, logged, bfs, traveller, wbnm, app>>

NextBuilder ==
    \/ LookupExpectedFields
    \/ FieldValidation
    \/ GeometryValidation
    \/ SpecificValidation
    \/ ValidationFailed
    \/ ValidationPassed

SpecBuilder == InitBuilder /\ [][NextBuilder]_vars

(***************************************************************************)
(* Vocabulary of the properties, stated on the input geometry and on the   *)
(* tables, not through the operators of connect().                         *)
(***************************************************************************)
Vs == 0..(Len(vertices) - 1)

Es == 0..(Len(edges) - 1)

StartXY(e) == edges[e + 1].vector[1].xy

EndXY(e) == edges[e + 1].vector[Len(edges[e + 1].vector)].xy

DistSq(xy, v) ==
    LET dx == vertices[v + 1].xy[1] - xy[1]
        dy == vertices[v + 1].xy[2] - xy[2]
    IN  dx * dx + dy * dy

\* vertex v is within tolerance tol of the point
Within(xy, v, tol) == DistSq(xy, v) <= tol * tol

\* the point binds to vertex v: v is within tolerance, no vertex is nearer,
\* and every vertex before v in the list is strictly farther
BindsTo(xy, v, tol) ==
    /\ v \in Vs
    /\ Within(xy, v, tol)
    /\ \A w \in Vs : DistSq(xy, w) >= DistSq(xy, v)
    /\ \A w \in Vs : w < v => DistSq(xy, w) > DistSq(xy, v)

Coincides(xy, v) == vertices[v + 1].xy = xy

Unresolved(e) ==
    \/ \A v \in Vs : ~Within(StartXY(e), v, DefaultTol)
    \/ \A v \in Vs : ~Within(EndXY(e), v, DefaultTol)

Outlets == {v \in Vs : vertices[v + 1].kind = "Confluence" /\ vertices[v + 1].isOut}

ConnectCalled == ret.op = "connect"

ConnectSucceeded == ret.op = "connect" /\ ret.kind = "return"

ConnectFailed == ret.op = "connect" /\ ret.kind = "raise"

TablesShaped ==
    /\ incidenceMatrixDS.shape = <<Len(vertices), Len(edges)>>
    /\ incidenceMatrixUS.shape = <<Len(vertices), Len(edges)>>

DSRow(v) == {e \in Es : incidenceMatrixDS.at[v][e] # endSentinel}

USRow(v) == {e \in Es : incidenceMatrixUS.at[v][e] # endSentinel}

(***************************************************************************)
(* C1. After a successful connect(), for every edge e whose start point    *)
(* binds to vertex s and whose end point binds to vertex t, DS[s][e] = t   *)
(* and US[t][e] = s, and every other entry of DS and US is the sentinel.   *)
(***************************************************************************)
C1_BoundEdgesRecorded ==
    ConnectSucceeded =>
        /\ TablesShaped
        /\ \A e \in Es :
             LET starts == {s \in Vs : BindsTo(StartXY(e), s, DefaultTol)}
                 ends == {t \in Vs : BindsTo(EndXY(e), t, DefaultTol)}
             IN  \A v \in Vs :
                   /\ incidenceMatrixDS.at[v][e] \in
                        (IF v \in starts /\ ends # {} THEN ends ELSE {endSentinel})
                   /\ incidenceMatrixUS.at[v][e] \in
                        (IF v \in ends /\ starts # {} THEN starts ELSE {endSentinel})

\* the scenario C (outlet Confluence), A, B (Basins) with edges A->C, B->C
C1_Witness ==
    /\ ConnectSucceeded
    /\ Len(vertices) = 3 /\ Len(edges) = 2
    /\ Outlets = {0}
    /\ vertices[2].kind = "Basin" /\ vertices[3].kind = "Basin"
    /\ BindsTo(StartXY(0), 1, DefaultTol) /\ BindsTo(EndXY(0), 0, DefaultTol)
    /\ BindsTo(StartXY(1), 2, DefaultTol) /\ BindsTo(EndXY(1), 0, DefaultTol)
    /\ incidenceMatrixDS.at[1][0] = 0 /\ incidenceMatrixDS.at[2][1] = 0
    /\ DSRow(1) = {0} /\ DSRow(2) = {1} /\ DSRow(0) = {}
    /\ incidenceMatrixUS.at[0][0] = 1 /\ incidenceMatrixUS.at[0][1] = 2
    /\ USRow(0) = {0, 1}

(***************************************************************************)
(* C2. On an input that is a tree rooted at a single outlet-flagged        *)
(* Confluence (each edge's start coincides with exactly one vertex, its    *)
(* end with exactly one other vertex, every non-outlet vertex is the       *)
(* upstream end of exactly one edge, the outlet of none), connect()        *)
(* succeeds, every non-outlet vertex has exactly one non-sentinel entry in *)
(* its DS row and the outlet's DS row is entirely sentinel.                *)
(***************************************************************************)
StartsAt(v) == {e \in Es : Coincides(StartXY(e), v)}

TreeInput ==
    /\ Cardinality(Outlets) = 1
    /\ \A e \in Es :
         /\ Cardinality({v \in Vs : Coincides(StartXY(e), v)}) = 1
         /\ Cardinality({v \in Vs : Coincides(EndXY(e), v)}) = 1
         /\ StartXY(e) # EndXY(e)
    /\ \A v \in Vs : Cardinality(StartsAt(v)) = (IF v \in Outlets THEN 0 ELSE 1)

C2_TreeHasOneDownstreamEach ==
    (ConnectCalled /\ TreeInput) =>
        /\ ConnectSucceeded
        /\ TablesShaped
        /\ \A v \in Vs :
             Cardinality(DSRow(v)) = (IF v \in Outlets THEN 0 ELSE 1)

\* a chain of three vertices down to the outlet
C2_Witness ==
    /\ ConnectSucceeded /\ TreeInput
    /\ Len(vertices) = 3 /\ Len(edges) = 2
    /\ \E v \in Vs : \E w \in Vs :
         /\ v \notin Outlets /\ w \notin Outlets /\ v # w
         /\ \E e \in Es : incidenceMatrixDS.at[v][e] = w
         /\ \E e \in Es : incidenceMatrixDS.at[w][e] \in Outlets

(***************************************************************************)
(* C3. When no vertex is a Confluence flagged as outlet, connect() fails   *)
(* with the no-outlet error and the stored DS table, US table and outlet   *)
(* index are what they were before the call.                               *)
(***************************************************************************)
C3_NoOutletFailsAndStoresNothing ==
    [][(Outlets = {} /\ ret'.op = "connect")
          => /\ ret'.kind = "raise" /\ ret'.exc = NoOutNode
             /\ incidenceMatrixDS' = incidenceMatrixDS
             /\ incidenceMatrixUS' = incidenceMatrixUS
             /\ out_node_index' = out_node_index]_vars

\* a failed call on a catchment that has vertices and an edge between them
C3_Witness ==
    /\ ConnectFailed /\ Outlets = {}
    /\ Len(vertices) >= 2 /\ Len(edges) >= 1
    /\ ~Unresolved(0)
    /\ incidenceMatrixDS = EmptyArray /\ incidenceMatrixUS = EmptyArray
    /\ out_node_index = -1

(***************************************************************************)
(* C4. When two or more Confluences are flagged as outlet, connect() fails *)
(* with a fatal error; it does not complete with one of them as outlet.    *)
(***************************************************************************)
C4_MultipleOutletsFail ==
    (ConnectCalled /\ Cardinality(Outlets) >= 2) => ConnectFailed

(***************************************************************************)
(* C5. A connect() call on a Catchment that an earlier call connected      *)
(* leaves the DS table, the US table and the outlet index as they were     *)
(* and returns the same tables.                                            *)
(***************************************************************************)
C5_ConnectTwiceSame ==
    [][(ConnectSucceeded /\ ret'.op = "connect")
          => /\ ret' = ret
             /\ incidenceMatrixDS' = incidenceMatrixDS
             /\ incidenceMatrixUS' = incidenceMatrixUS
             /\ out_node_index' = out_node_index]_vars

\* the state after a call, and after every later call, with entries set
C5_Witness ==
    /\ ConnectSucceeded
    /\ Len(edges) = 2
    /\ \A e \in Es : \E v \in Vs : incidenceMatrixDS.at[v][e] # endSentinel
    /\ ret.value = <<incidenceMatrixDS, incidenceMatrixUS>>

(***************************************************************************)
(* C6. If an edge has an endpoint farther than the tolerance from every    *)
(* vertex, connect() (given an outlet) completes, that edge's column is    *)
(* entirely sentinel in DS and US, and the entries of every other edge are *)
(* those connect() gives when the edge is absent.                          *)
(***************************************************************************)
RemoveAt(seq, i) == SubSeq(seq, 1, i) \o SubSeq(seq, i + 2, Len(seq))

WithoutEdge(e) == connect(Catchment(<<>>, vertices, RemoveAt(edges, e))).self

ColumnWithout(e, f) == IF f < e THEN f ELSE f - 1

C6_UnresolvedEdgeExcluded ==
    (ConnectCalled /\ Outlets # {}) =>
        /\ ConnectSucceeded
        /\ \A e \in Es : Unresolved(e) =>
             LET without == WithoutEdge(e)
             IN  /\ \A v \in Vs : /\ incidenceMatrixDS.at[v][e] = endSentinel
                                  /\ incidenceMatrixUS.at[v][e] = endSentinel
                 /\ \A f \in Es \ {e} : \A v \in Vs :
                      /\ incidenceMatrixDS.at[v][f]
                           = without.incidenceMatrixDS.at[v][ColumnWithout(e, f)]
                      /\ incidenceMatrixUS.at[v][f]
                           = without.incidenceMatrixUS.at[v][ColumnWithout(e, f)]

\* the first edge starts at a vertex and ends nowhere; the second is recorded
C6_Witness ==
    /\ ConnectSucceeded
    /\ Len(edges) = 2
    /\ \E v \in Vs : Within(StartXY(0), v, DefaultTol)
    /\ \A v \in Vs : ~Within(EndXY(0), v, DefaultTol)
    /\ \A v \in Vs : incidenceMatrixDS.at[v][0] = endSentinel
    /\ \E v \in Vs : incidenceMatrixDS.at[v][1] # endSentinel
    /\ logged = 1

(***************************************************************************)
(* C7. What connect() returns to its caller includes, beside the two       *)
(* tables, a count equal to the number of edges it skipped.                *)
(***************************************************************************)
SkippedEdges == {e \in Es : Unresolved(e)}

C7_ReturnCarriesSkipCount ==
    (ConnectSucceeded /\ SkippedEdges # {}) =>
        \E i \in 3..Len(ret.value) : ret.value[i] = Cardinality(SkippedEdges)

(***************************************************************************)
(* C8. After a successful connect() no vertex has more than one            *)
(* non-sentinel entry in its DS row.                                       *)
(***************************************************************************)
C8_AtMostOneDownstream ==
    ConnectSucceeded => \A v \in Vs : Cardinality(DSRow(v)) <= 1

(***************************************************************************)
(* C9. After connect() there are no vertex v and edge e with DS[v][e] = v  *)
(* or US[v][e] = v: no edge is recorded as a self-loop.                    *)
(***************************************************************************)
C9_NoSelfLoop ==
    ConnectSucceeded =>
        \A v \in Vs : \A e \in Es :
            /\ incidenceMatrixDS.at[v][e] # v
            /\ incidenceMatrixUS.at[v][e] # v

(***************************************************************************)
(* C10. _find_closest_vertex(point, tol) returns the index of a vertex at  *)
(* minimum distance from the point, the lowest index among those tied at   *)
(* the minimum, and returns -1 exactly when the minimum distance is        *)
(* strictly greater than tol (always, on an empty vertex list); the call   *)
(* leaves the stored tables and the outlet index as constructed.           *)
(***************************************************************************)
MatchCalled == ret.op = "_find_closest_vertex"

C10_ClosestVertex ==
    MatchCalled =>
        LET xy == ret.args[1]
            tol == ret.args[2]
            idx == ret.value[1]
        IN  /\ (idx = -1) <=> (\A v \in Vs : ~Within(xy, v, tol))
            /\ idx # -1 => BindsTo(xy, idx, tol)
            /\ incidenceMatrixDS = EmptyArray /\ incidenceMatrixUS = EmptyArray
            /\ out_node_index = -1

\* two vertices exactly at the tolerance from the point, a third one beyond
\* it and first in the list: the earlier of the two is returned
C10_Witness ==
    /\ MatchCalled
    /\ Len(vertices) = 3
    /\ ret.args[2] = 1
    /\ DistSq(ret.args[1], 0) = 2
    /\ DistSq(ret.args[1], 1) = 1
    /\ DistSq(ret.args[1], 2) = 1
    /\ ret.value = <<1>>

(***************************************************************************)
(* C11. _find_vertex_by_coordinates(point, tol) returns what the nearest-  *)
(* vertex match returns for the same point and tolerance: the index of the *)
(* vertex nearest to the point (the lowest index among those tied) when    *)
(* that vertex lies within tol, and -1 otherwise.                          *)
(***************************************************************************)
LookupCalled == ret.op = "_find_vertex_by_coordinates"

C11_LookupIsClosest ==
    LookupCalled =>
        LET xy == ret.args[1]
            tol == ret.args[2]
            idx == ret.value[1]
        IN  /\ (idx = -1) <=> (\A v \in Vs : ~Within(xy, v, tol))
            /\ idx # -1 => BindsTo(xy, idx, tol)

(***************************************************************************)
(* C12. Endpoint binding uses the loose tolerance (1e-1): after a          *)
(* successful connect(), an edge whose start point has nearest vertex s    *)
(* and whose end point has nearest vertex t, each within the loose         *)
(* tolerance (though possibly beyond the tight one, 1e-6), is recorded:    *)
(* DS[s][e] = t and US[t][e] = s.                                          *)
(***************************************************************************)
NearestTo(xy, v) ==
    /\ v \in Vs
    /\ \A w \in Vs : DistSq(xy, w) >= DistSq(xy, v)
    /\ \A w \in Vs : w < v => DistSq(xy, w) > DistSq(xy, v)

WithinLoose(xy, v) ==
    hypotLe(vertices[v + 1].xy[1] - xy[1], vertices[v + 1].xy[2] - xy[2], CoordTol)

C12_LooseBinding ==
    ConnectSucceeded =>
        \A e \in Es : \A s \in Vs : \A t \in Vs :
            ( /\ NearestTo(StartXY(e), s) /\ WithinLoose(StartXY(e), s)
              /\ NearestTo(EndXY(e), t) /\ WithinLoose(EndXY(e), t) )
            => /\ incidenceMatrixDS.at[s][e] = t
               /\ incidenceMatrixUS.at[t][e] = s

(***************************************************************************)
(* C13. The tables connect() stores and returns are those the breadth-     *)
(* first builder _build_incidence_matrices produces from the connection    *)
(* matrix of connect()'s first loop and the outlet index it found,         *)
(* starting from tables filled with the sentinel.                          *)
(***************************************************************************)
BreadthFirstTables ==
    LET num_vertices == Len(vertices)
        num_edges == Len(edges)
        first == connection_loop(vertices, edges, 0,
                                 np_full(num_vertices, num_edges, 0), 0)
    IN  build_incidence_matrices(Self, first.connection_matrix,
            np_full(num_vertices, num_edges, endSentinel),
            np_full(num_vertices, num_edges, endSentinel),
            num_vertices, num_edges)

C13_TablesFromBreadthFirst ==
    ConnectSucceeded =>
        /\ incidenceMatrixDS = BreadthFirstTables.ds
        /\ incidenceMatrixUS = BreadthFirstTables.us
        /\ ret.value = <<BreadthFirstTables.ds, BreadthFirstTables.us>>

(***************************************************************************)
(* C14. In _build_incidence_matrices each propagation handles a (vertex,   *)
(* edge) pair at most once, so it handles at most vertexCount x edgeCount  *)
(* pairs and enqueues at most as many items after its seed, and the        *)
(* function reaches its end on every input, cycles through the outlet      *)
(* included.                                                               *)
(***************************************************************************)
NoRepeat(seq) ==
    \A i \in 1..Len(seq) : \A j \in 1..Len(seq) : seq[i] = seq[j] => i = j

PropagationBounded(p) ==
    /\ NoRepeat(p.processed)
    /\ Len(p.processed) <= Len(vertices) * Len(edges)
    /\ p.enqueued <= Len(vertices) * Len(edges)

BuildBounded ==
    /\ bfs.pc \in {"us", "ds", "done"} => PropagationBounded(bfs.us)
    /\ bfs.pc \in {"ds", "done"} => PropagationBounded(bfs.ds)

UpstreamOf(v) == {incidenceMatrixUS.at[v][e] : e \in USRow(v)}

ReachableFromOutlet ==
    LET F[k \in 0..Len(vertices)] ==
            IF k = 0 THEN {out_node_index}
            ELSE F[k - 1] \cup UNION {UpstreamOf(v) : v \in F[k - 1]}
    IN  F[Len(vertices)]

VerticesSeen ==
    {traveller.seen[k] : k \in 1..Len(traveller.seen)} \ {endSentinel}

WalkSound ==
    traveller.pc \in {"beforeStart", "at", "finished"} =>
        /\ NoRepeat(traveller.seen)
        /\ VerticesSeen \subseteq ReachableFromOutlet
        /\ traveller.pc = "finished" =>
             /\ VerticesSeen = ReachableFromOutlet
             /\ traveller.seen[Len(traveller.seen)] = endSentinel

C15_WalkCompleteAndLoopEnds ==
    /\ []WalkSound
    /\ (wbnm.pc = "loop") ~> (wbnm.pc = "done")

\* outlet 0 with Basin 1 upstream of it, and vertices 2 and 3 draining into
\* each other: the loop visited 0 and 1 only and ended
C15_Witness ==
    /\ wbnm.pc = "done"
    /\ Len(vertices) = 4
    /\ vertices[2].kind = "Basin"
    /\ ReachableFromOutlet = {0, 1}
    /\ incidenceMatrixDS.at[2][1] = 3 /\ incidenceMatrixDS.at[3][2] = 2
    /\ traveller.seen = <<0, 1, endSentinel>>
    /\ Len(wbnm.subAreas) = 1

(***************************************************************************)
(* C16. Once a Traveller is finished it stays finished: after every        *)
(* further step, next() calls included, it is finished and position() is   *)
(* the end sentinel.                                                       *)
(***************************************************************************)
C16_FinishedStays ==
    [][traveller.pc = "finished" =>
         /\ traveller'.pc = "finished"
         /\ position(traveller') = endSentinel]_vars

\* two next() calls were made after the end of the walk
C16_Witness ==
    /\ traveller.pc = "finished"
    /\ ret.op = "next"
    /\ traveller.extra >= 2
    /\ Len(traveller.seen) >= 3

(***************************************************************************)
(* C17. _getDsIndex(i) returns exactly when the chain of down() links from *)
(* i meets a Basin or the outlet Confluence after non-outlet Confluences   *)
(* only; it then returns the index of that Basin, or the end sentinel for  *)
(* the outlet, and so never the index of a non-outlet Confluence.          *)
(***************************************************************************)
DownOf(v) ==
    IF DSRow(v) = {}
    THEN endSentinel
    ELSE incidenceMatrixDS.at[v][CHOOSE e \in DSRow(v) : \A f \in DSRow(v) : e <= f]

RECURSIVE DownK(_, _)
DownK(v, k) ==
    IF k = 0 THEN v
    ELSE IF DownK(v, k - 1) = endSentinel THEN endSentinel
    ELSE DownOf(DownK(v, k - 1))

IsBasin(v) == v \in Vs /\ vertices[v + 1].kind = "Basin"

IsOutlet(v) == v \in Outlets

IsJunction(v) == v \in Vs /\ vertices[v + 1].kind = "Confluence" /\ v \notin Outlets

\* the k-th vertex downstream of i is the first that is not a junction
StopsAt(i, k) ==
    /\ \A j \in 1..(k - 1) : IsJunction(DownK(i, j))
    /\ IsBasin(DownK(i, k)) \/ IsOutlet(DownK(i, k))

DsIndexCalled == ret.op = "_getDsIndex"

C17_FirstBasinOrSentinel ==
    DsIndexCalled =>
        LET i == ret.args[1]
        IN  /\ ret.kind = "return" <=> \E k \in 1..Len(vertices) : StopsAt(i, k)
            /\ \A k \in 1..Len(vertices) :
                 (ret.kind = "return" /\ StopsAt(i, k)) =>
                     ret.value[1] = IF IsBasin(DownK(i, k))
                                    THEN DownK(i, k)
                                    ELSE endSentinel

\* Basin 3 -> Confluence 1 -> Confluence 2 -> Basin 4 -> outlet 0: the result
\* for Basin 3 is Basin 4
C17_Witness ==
    /\ DsIndexCalled
    /\ Len(vertices) = 5
    /\ Outlets = {0}
    /\ IsJunction(1) /\ IsJunction(2) /\ IsBasin(3) /\ IsBasin(4)
    /\ DownOf(3) = 1 /\ DownOf(1) = 2 /\ DownOf(2) = 4 /\ DownOf(4) = 0
    /\ ret.args = <<3>>
    /\ ret.kind = "return"
    /\ ret.value = <<4>>

(***************************************************************************)
(* C18. _getDsIndex(i) ends on every input either by returning or, when    *)
(* the chain of down() links never meets a Basin or the outlet, with a     *)
(* MalformedTopology failure.                                              *)
(***************************************************************************)
C18_CycleFailsAsMalformedTopology ==
    DsIndexCalled => (ret.kind = "return" \/ ret.exc = "MalformedTopology")

(***************************************************************************)
(* C19. The end sentinel, the value held by the unset entries of DS and    *)
(* US, and the vertex indices are pairwise distinct: after a successful    *)
(* connect() the end sentinel is no vertex index, and an entry of DS or US *)
(* that no bound edge set holds neither a vertex index nor the end         *)
(* sentinel.                                                               *)
(***************************************************************************)
SetInDS(v, e) ==
    /\ BindsTo(StartXY(e), v, DefaultTol)
    /\ \E t \in Vs : BindsTo(EndXY(e), t, DefaultTol)

SetInUS(v, e) ==
    /\ BindsTo(EndXY(e), v, DefaultTol)
    /\ \E u \in Vs : BindsTo(StartXY(e), u, DefaultTol)

C19_SentinelsDistinct ==
    ConnectSucceeded =>
        /\ endSentinel \notin Vs
        /\ \A v \in Vs : \A e \in Es :
             /\ ~SetInDS(v, e) =>
                  incidenceMatrixDS.at[v][e] \notin (Vs \cup {endSentinel})
             /\ ~SetInUS(v, e) =>
                  incidenceMatrixUS.at[v][e] \notin (Vs \cup {endSentinel})

(***************************************************************************)
(* C20. In main() the stages succeed in the order load, builder, build,    *)
(* create, connect, traveller, write; the output is written only when the  *)
(* six stages before the write have all succeeded; and when a stage raises *)
(* main() has returned, nothing is written and no later stage has run.     *)
(***************************************************************************)
StagesBefore(stage) ==
    SubSeq(Stages, 1, (CHOOSE k \in 1..Len(Stages) : Stages[k] = stage) - 1)

MainRunning == app.pc # "none"

C21_ConnectKeepsLists ==
    [][ret'.op = "connect" => (vertices' = vertices /\ edges' = edges)]_vars

\* a connected catchment of two vertices whose outlet is not the first,
\* with a reach that could not be bound still in the edge list
C21_Witness ==
    /\ ConnectSucceeded
    /\ Len(vertices) = 2 /\ out_node_index = 1
    /\ Len(edges) = 2
    /\ Unresolved(0) /\ ~Unresolved(1)

(***************************************************************************)
(* C22. After WBNM._subAreaFactory, the downstream sub-area of every       *)
(* sub-area is a Basin of the catchment or the synthetic SINK basin, never *)
(* a Confluence, and it is SINK exactly when the downstream resolution of  *)
(* that sub-area gave the end sentinel.                                    *)
(***************************************************************************)
FactoryDone == wbnm.pc = "done" /\ ret.op = "_subAreaFactory"

DsSubAreaOf(k) == ret.value[1][k]

C22_DownstreamIsBasinOrSink ==
    FactoryDone =>
        \A k \in 1..Len(wbnm.subAreas) :
            /\ DsSubAreaOf(k).kind = "Basin"
            /\ \/ DsSubAreaOf(k) = SinkBasin
               \/ \E v \in Vs : IsBasin(v) /\ vertices[v + 1] = DsSubAreaOf(k)
            /\ DsSubAreaOf(k) = SinkBasin
                   <=> wbnm.subAreas[k].dsNodeIndex = endSentinel

\* Basin 3 drains through Confluence 1 into Basin 2, which drains into the
\* outlet: the sub-area of 2 has SINK downstream, that of 3 has Basin 2
C22_Witness ==
    /\ FactoryDone
    /\ Len(vertices) = 4 /\ IsBasin(2) /\ IsBasin(3) /\ IsJunction(1)
    /\ DownOf(3) = 1 /\ DownOf(1) = 2 /\ DownOf(2) = 0
    /\ Len(wbnm.subAreas) = 2
    /\ wbnm.subAreas[1].node = 2 /\ DsSubAreaOf(1) = SinkBasin
    /\ wbnm.subAreas[2].node = 3 /\ DsSubAreaOf(2) = vertices[3]

(***************************************************************************)
(* C23. validate_confluences_out_field returns True exactly when one       *)
(* record of the layer has out = 1 and every other record has out = 0: no  *)
(* record at 1, several records at 1, or a value that is neither 0 nor 1,  *)
(* a missing one included, is rejected.                                    *)
(***************************************************************************)
OutFieldCalled == ret.op = "validate_confluences_out_field"

\* the 'out' attribute of record i, None when the layer has no field 'out'
OutOf(i) ==
    IF builder.layer.fields[1].name = FieldName("out", FALSE)
    THEN builder.layer.features[i].values[1]
    ELSE None

C23_ExactlyOneOut ==
    OutFieldCalled =>
        (ret.value[1] <=>
            \E i \in 1..Len(builder.layer.features) :
                /\ OutOf(i) = Integer(1)
                /\ \A j \in 1..Len(builder.layer.features) :
                       j # i => OutOf(j) = Integer(0))

\* three records, the second flagged: accepted
C23_Witness ==
    /\ OutFieldCalled
    /\ ret.value = <<TRUE>>
    /\ Len(builder.layer.features) = 3
    /\ OutOf(1) = Integer(0) /\ OutOf(2) = Integer(1) /\ OutOf(3) = Integer(0)

(***************************************************************************)
(* C24. After one run of WBNM._subAreaFactory on an empty sub-area list,   *)
(* the list holds one SubArea for each Basin position the Traveller        *)
(* visited and none for a Confluence, in the order visited, and the        *)
(* streamChannel of a SubArea is true exactly when its Basin has a vertex  *)
(* upstream of it.                                                         *)
(***************************************************************************)
RECURSIVE BasinsIn(_)
BasinsIn(seq) ==
    IF seq = <<>> THEN <<>>
    ELSE IF IsBasin(Head(seq)) THEN <<Head(seq)>> \o BasinsIn(Tail(seq))
    ELSE BasinsIn(Tail(seq))

C24_OneSubAreaPerBasinVisited ==
    FactoryDone =>
        /\ [k \in 1..Len(wbnm.subAreas) |-> wbnm.subAreas[k].node]
               = BasinsIn(traveller.seen)
        /\ \A k \in 1..Len(wbnm.subAreas) :
               wbnm.subAreas[k].streamChannel
                   <=> UpstreamOf(wbnm.subAreas[k].node) # {}

\* the walk 0, 2, 1, 3 over outlet 0, Basin 2, Confluence 1 and Basin 3: a
\* SubArea for 2, which has a channel, then one for 3, which has none
C24_Witness ==
    /\ FactoryDone
    /\ traveller.seen = <<0, 2, 1, 3, endSentinel>>
    /\ IsJunction(1)
    /\ Len(wbnm.subAreas) = 2
    /\ wbnm.subAreas[1].node = 2 /\ wbnm.subAreas[1].streamChannel
    /\ wbnm.subAreas[2].node = 3 /\ ~wbnm.subAreas[2].streamChannel

(***************************************************************************)
(* C25. validate_shapefile_fields compares field names without regard to   *)
(* letter case: a layer that has, for every expected field, a field of the *)
(* same name up to letter case, of an acceptable type, holding a non-empty *)
(* value in every record, passes the validation.                           *)
(***************************************************************************)
FieldsCalled == ret.op = "validate_shapefile_fields"

SameNameUpToCase(k, j) ==
    lower(builder.layer.fields[j].name) = lower(builder.expected_fields[k].name)

AcceptableType(k, j) ==
    \/ builder.layer.fields[j].type = builder.expected_fields[k].type
    \/ {builder.layer.fields[j].type, builder.expected_fields[k].type}
           \subseteq {"Integer", "Integer64"}

NonEmptyIn(j) ==
    \A i \in 1..Len(builder.layer.features) :
        LET value == builder.layer.features[i].values[j]
        IN  value # None /\ ~(value.kind = "str" /\ value.text \in {"", " "})

C25_FieldNamesCaseInsensitive ==
    (/\ FieldsCalled
     /\ \A k \in 1..Len(builder.expected_fields) :
            /\ \E j \in 1..Len(builder.layer.fields) : SameNameUpToCase(k, j)
            /\ \A j \in 1..Len(builder.layer.fields) :
                   SameNameUpToCase(k, j) => AcceptableType(k, j) /\ NonEmptyIn(j))
        => ret.value = <<TRUE>>

(***************************************************************************)
(* C26. Builder._validate_vector_layer calls the field validation, then    *)
(* the geometry validation, then the layer-specific validations, stops at  *)
(* the first that fails and returns False, as it does when the layer type  *)
(* has no expected-fields entry; Builder.reach, Builder.basin and          *)
(* Builder.confluence then raise ValueError before reading any feature, so *)
(* no object is produced from a layer that fails validation.               *)
(***************************************************************************)
BuilderRunning ==
    builder.pc \in {"lookup", "fields", "geometries", "specific",
                    "valid", "invalid", "raised", "built"}

PassesValidation(layer_type, stage) ==
    CASE stage = "fields" ->
             validate_shapefile_fields(builder.layers[layer_type],
                                       builder.expected_fields[layer_type].fields)
      [] stage = "geometries" ->
             validate_shapefile_geometries(builder.layers[layer_type], layer_type)
      [] stage = "specific" ->
             validate_confluences_out_field(builder.layers[layer_type])

\* the validations that apply to a layer type, in the order of the claim
ValidationsOf(layer_type) ==
    (IF builder.expected_fields[layer_type].fields = <<>>
     THEN <<>> ELSE <<<<layer_type, "fields">>>>)
    \o <<<<layer_type, "geometries">>>>
    \o (IF layer_type = "confluences"
        THEN <<<<layer_type, "specific">>>> ELSE <<>>)

\* every validation the method would run if none failed
AllValidations ==
    IF builder.method = "basin"
    THEN ValidationsOf("basins") \o ValidationsOf("centroids")
    ELSE ValidationsOf(layers_of(builder.method)[1])

FullyValid(layer_type) ==
    /\ builder.expected_fields[layer_type].present
    /\ \A k \in 1..Len(ValidationsOf(layer_type)) :
           PassesValidation(layer_type, ValidationsOf(layer_type)[k][2])

Rejected == builder.pc \in {"invalid", "raised"}

C26_ValidationStopsAndBuilderRaises ==
    BuilderRunning =>
        /\ \E n \in 0..Len(AllValidations) :
               builder.ran = SubSeq(AllValidations, 1, n)
        /\ \A a \in 1..(Len(builder.ran) - 1) :
               PassesValidation(builder.ran[a][1], builder.ran[a][2])
        /\ IF Rejected
           THEN \/ ~builder.expected_fields[Head(builder.pending)].present
                \/ /\ builder.ran # <<>>
                   /\ builder.ran[Len(builder.ran)][1] = Head(builder.pending)
                   /\ ~PassesValidation(builder.ran[Len(builder.ran)][1],
                                        builder.ran[Len(builder.ran)][2])
           ELSE \A a \in 1..Len(builder.ran) :
                    PassesValidation(builder.ran[a][1], builder.ran[a][2])
        /\ builder.pc = "raised" =>
               /\ ret = Raised(builder.method, <<>>, "ValueError")
               /\ builder.read = 0 /\ builder.produced = 0
        /\ (builder.pc = "built" \/ builder.read > 0 \/ builder.produced > 0) =>
               /\ builder.ran = AllValidations
               /\ \A k \in 1..Len(layers_of(builder.method)) :
                      FullyValid(layers_of(builder.method)[k])

\* Builder.confluence on a layer whose one feature has its id and a point
\* but is not flagged 'out': fields and geometries pass, the 'out' field
\* validation fails, ValueError is raised and nothing is read
C26_Witness ==
    /\ builder.pc = "raised"
    /\ builder.method = "confluence"
    /\ builder.ran = << <<"confluences", "fields">>,
                        <<"confluences", "geometries">>,
                        <<"confluences", "specific">> >>
    /\ Len(builder.layers["confluences"].features) = 1
    /\ ret = Raised("confluence", <<>>, "ValueError")
    /\ builder.read = 0 /\ builder.produced = 0

(***************************************************************************)
(* C27. After a successful connect() the stored outlet index is a valid    *)
(* vertex index, that of the lowest-indexed Confluence flagged as outlet,  *)
(* never that of a Basin; before the first successful connect() it is the  *)
(* sentinel -1.                                                            *)
(***************************************************************************)
C27_OutletIndex ==
    IF ConnectSucceeded
    THEN /\ out_node_index \in Vs
         /\ vertices[out_node_index + 1].kind = "Confluence"
         /\ vertices[out_node_index + 1].isOut
         /\ \A v \in Vs : v < out_node_index => v \notin Outlets
    ELSE out_node_index = -1

\* two Confluences, both flagged: the first is the outlet
C27_Witness ==
    /\ ConnectSucceeded
    /\ Len(vertices) = 2
    /\ Outlets = {0, 1}
    /\ out_node_index = 0

(***************************************************************************)
(* C28. After a successful connect(), DS and US mirror each other: for all *)
(* vertices v, w and every edge e, DS[v][e] = w if and only if             *)
(* US[w][e] = v, and the column of an edge holds at most one entry other   *)
(* than the sentinel in DS and at most one in US.                          *)
(***************************************************************************)
C28_TablesMirror ==
    ConnectSucceeded =>
        /\ \A e \in Es : \A v \in Vs : \A w \in Vs :
               incidenceMatrixDS.at[v][e] = w <=> incidenceMatrixUS.at[w][e] = v
        /\ \A e \in Es :
               /\ Cardinality({v \in Vs : incidenceMatrixDS.at[v][e] # endSentinel}) <= 1
               /\ Cardinality({v \in Vs : incidenceMatrixUS.at[v][e] # endSentinel}) <= 1

\* three vertices, a reach from 2 to 1 and a reach from 1 to 0
C28_Witness ==
    /\ ConnectSucceeded
    /\ Len(vertices) = 3 /\ Len(edges) = 2
    /\ \E e \in Es : incidenceMatrixDS.at[2][e] = 1 /\ incidenceMatrixUS.at[1][e] = 2
    /\ \E e \in Es : incidenceMatrixDS.at[1][e] = 0 /\ incidenceMatrixUS.at[0][e] = 1

(***************************************************************************)
(* C29. A WBNM instance never clears its sub-area list: after k getVector  *)
(* calls on one instance, each with a fresh Traveller that visits the same *)
(* b Basins, the list holds k * b sub-areas and the topology block reports *)
(* k * b sub-areas.                                                        *)
(***************************************************************************)
BasinsVisited == {v \in ReachableFromOutlet : IsBasin(v)}

GetVectorReturned == wbnm.pc = "returned" /\ ret.op = "getVector"

C29_SubAreasAccumulate ==
    GetVectorReturned =>
        /\ Len(wbnm.subAreas) = wbnm.calls * Cardinality(BasinsVisited)
        /\ ret.value = <<wbnm.calls * Cardinality(BasinsVisited)>>

\* two calls over a catchment whose walk visits two Basins: four sub-areas
C29_Witness ==
    /\ GetVectorReturned
    /\ wbnm.calls = 2
    /\ Cardinality(BasinsVisited) = 2
    /\ Len(wbnm.subAreas) = 4
    /\ ret.value = <<4>>

(***************************************************************************)
(* C30. The vertex list holds all Confluences first, then all Basins: every *)
(* Confluence has a lower index than every Basin, so when a Confluence and  *)
(* a Basin are exactly equidistant from an edge endpoint, nearest to it and *)
(* within tolerance, connect() binds the endpoint to a Confluence.          *)
(***************************************************************************)
IsConfluence(v) == v \in Vs /\ vertices[v + 1].kind = "Confluence"

\* a Confluence and a Basin are both nearest to the point, within tolerance
TiedAt(xy) ==
    \E c \in Vs : \E b \in Vs :
        /\ IsConfluence(c) /\ IsBasin(b)
        /\ DistSq(xy, c) = DistSq(xy, b)
        /\ Within(xy, c, DefaultTol)
        /\ \A w \in Vs : DistSq(xy, w) >= DistSq(xy, c)

StartVertices(e) == {v \in Vs : incidenceMatrixDS.at[v][e] # endSentinel}

EndVertices(e) == {v \in Vs : incidenceMatrixUS.at[v][e] # endSentinel}

====
